---- MODULE Spec2Model ----
EXTENDS Integers, Sequences, FiniteSets, TLC

(***************************************************************************)
(* okfp: Either, Validation and TaskEither.                                *)
(*                                                                         *)
(* Every library function is an operator that takes the machine m (the     *)
(* log of caller-supplied functions invoked so far, the object allocation  *)
(* counter and, for the deferred family, the promises and their reactions) *)
(* and returns a completion [m, ok, v]: ok = TRUE is a normal return of v, *)
(* ok = FALSE is v thrown.  JavaScript closures are records [clo |-> ...]  *)
(* holding their captured variables; Call runs a closure's body.           *)
(***************************************************************************)

\* ------------------------------------------------------------------ bounds
MaxVal == 2
MaxChain == 3
MaxBuild == 2
MaxAll == 3
MaxList == 3
MaxLib == 2
MaxRuns == 2
MaxMade == 2
MaxCalls == 2

Vals == 0 .. MaxVal
Errs == {"e1", "e2"}

VARIABLES
    start,    \* the value the pipeline started from
    cur,      \* the value the pipeline has produced so far
    ty,       \* static type of cur's success payload: "num", "fn", "nested", "pair"
    steps,    \* combinator calls made so far
    last,     \* the last combinator call: operation, receiver, argument, result, calls
    log,      \* caller-supplied functions invoked so far, in order
    nid,      \* objects allocated so far (object identity)
    exc,      \* the exception that escaped the last call, "none" if none did
    promises, \* every promise created so far, by identity
    jobs,     \* the microtask queue
    runs,     \* the promise each run() call returned (0: the call threw)
    insync    \* the synchronous block that called run() is still executing

vars == <<start, cur, ty, steps, last, log, nid, exc, promises, jobs, runs, insync>>

\* ------------------------------------------------------- the machine
Machine == [log |-> log, nid |-> nid, promises |-> promises, jobs |-> jobs]
Machine0 == [log |-> <<>>, nid |-> 0, promises |-> <<>>, jobs |-> <<>>]

Ret(m, v) == [m |-> m, ok |-> TRUE, v |-> v]
Throw(m, e) == [m |-> m, ok |-> FALSE, v |-> e]

\* ------------------------------------------- caller-supplied functions
User(name) == [clo |-> "user", name |-> name]
Nullary == {"mkErr", "A", "B", "C", "F", "T", "X", "orSome", "dflt", "effectN"}
NumMappers == {User("inc"), User("zero")}
FnMappers == {User("adder")}
NestMappers == {User("toRight")}
EitherMappers == {User("toRight"), User("toLeft"), User("decOrLeft")}
Predicates == {User("isZero"), User("always")}
OnLefts == {User("mkErr")}
Effects == {User("effect")}
OptionMappers == {User("toSome"), User("toNone")}
OptionFallbacks == {User("orSome")}
EitherFallbacks == {User("orRight"), User("orLeft")}
Defaults == {User("dflt")}
NoneEffects == {User("effectN")}
Map2Mappers == {User("sub2")}
Map3Mappers == {User("sub3")}
FnPayloads == {User("inc"), User("zero")}

LogCall(m, name, arg) ==
    [m EXCEPT !.log = Append(@, IF name \in Nullary THEN [fn |-> name]
                                                    ELSE [fn |-> name, arg |-> arg])]

Names(calls) == [i \in 1 .. Len(calls) |-> calls[i].fn]

\* --------------------------------------------------------------- Either
IsLeft(value) == "left" \in DOMAIN value

CreateEither(m, value) ==
    Ret([m EXCEPT !.nid = @ + 1], [value EXCEPT !.id = m.nid + 1])

MkLeft(m, e) == CreateEither(m, [left |-> e, id |-> 0])
MkRight(m, v) == CreateEither(m, [right |-> v, id |-> 0])

RECURSIVE Call(_, _, _)

EitherMatch(m, either, onLeft, onRight) ==
    IF IsLeft(either) THEN Call(m, onLeft, either.left)
                      ELSE Call(m, onRight, either.right)

\* flatMap that keeps the receiver when the mapper returns a Left.
EitherFlatMapKeep(m, either, mapper) ==
    IF IsLeft(either) THEN Ret(m, either)
    ELSE LET r == Call(m, mapper, either.right)
         IN  IF r.ok /\ IsLeft(r.v) THEN Ret(r.m, either) ELSE r

EitherFlatMap(m, either, mapper) ==
    EitherMatch(m, either, [clo |-> "const", v |-> either], mapper)

\* map that turns an exception of the mapper into a Left.
EitherMapCatching(m, either, mapper) ==
    LET r == EitherFlatMap(m, either, [clo |-> "mapWrap", mapper |-> mapper])
    IN  IF r.ok THEN r ELSE MkLeft(r.m, r.v)

EitherMap(m, either, mapper) ==
    EitherFlatMap(m, either, [clo |-> "mapWrap", mapper |-> mapper])

\* ap with the operands' priority reversed: the argument's Left wins.
EitherApArgFirst(m, this, arg) ==
    IF IsLeft(arg) THEN Ret(m, arg)
    ELSE EitherFlatMap(m, this, [clo |-> "apInner", arg |-> arg])

EitherAp(m, this, arg) ==
    EitherFlatMap(m, this, [clo |-> "apInner", arg |-> arg])

EitherZip(m, either, eitherA) ==
    LET r == EitherMap(m, either, [clo |-> "tupler"])
    IN  IF r.ok THEN EitherAp(r.m, r.v, eitherA) ELSE r

EitherFlatten(m, this) == EitherFlatMap(m, this, [clo |-> "id"])

\* filterOrElse that builds Left(onLeft()) whenever the receiver is not a
\* Right passing the predicate, a Left receiver included.
EitherFilterOrElseOverwrite(m, either, predicate, onLeft) ==
    IF IsLeft(either)
    THEN LET e == Call(m, onLeft, 0) IN MkLeft(e.m, e.v)
    ELSE EitherFlatMap(m, either, [clo |-> "filt", predicate |-> predicate,
                                      onLeft |-> onLeft, self |-> either])

EitherFilterOrElse(m, either, predicate, onLeft) ==
    EitherFlatMap(m, either, [clo |-> "filt", predicate |-> predicate,
                                 onLeft |-> onLeft, self |-> either])

EitherTap(m, either, sideEffect) ==
    LET r == EitherMatch(m, either, [clo |-> "noop"], sideEffect)
    IN  IF r.ok THEN Ret(r.m, either) ELSE r

\* orElse that answers a Right with a new Right of the same value.
EitherOrElseCopy(m, either, fallback) ==
    IF IsLeft(either) THEN Call(m, fallback, either.left)
                      ELSE MkRight(m, either.right)

EitherOrElse(m, either, fallback) ==
    EitherMatch(m, either, fallback, [clo |-> "const", v |-> either])

EitherGetOrElse(m, either, fallback) ==
    EitherMatch(m, either, fallback, [clo |-> "id"])

EitherToResult(either) ==
    IF IsLeft(either) THEN [ok |-> FALSE, error |-> either.left]
                      ELSE [ok |-> TRUE, value |-> either.right]

EitherClosure(m, f, arg) ==
    CASE f.clo = "const" -> Ret(m, f.v)
      [] f.clo = "id" -> Ret(m, arg)
      [] f.clo = "noop" -> Ret(m, 0)
      [] f.clo = "mapWrap" ->
            LET r == Call(m, f.mapper, arg)
            IN  IF r.ok THEN MkRight(r.m, r.v) ELSE r
      [] f.clo = "apInner" -> EitherMap(m, f.arg, [clo |-> "applyTo", fn |-> arg])
      [] f.clo = "applyTo" -> Call(m, f.fn, arg)
      [] f.clo = "tupler" -> Ret(m, [clo |-> "pair", value |-> arg])
      [] f.clo = "pair" -> Ret(m, <<f.value, arg>>)
      [] f.clo = "filt" ->
            LET p == Call(m, f.predicate, arg)
            IN  IF ~p.ok THEN p
                ELSE IF p.v THEN Ret(p.m, f.self)
                ELSE LET e == Call(p.m, f.onLeft, 0)
                     IN  IF e.ok THEN MkLeft(e.m, e.v) ELSE e

\* ----------------------------------------------------------- Validation
IsValid(value) == "valid" \in DOMAIN value

CreateValidation(m, value) ==
    Ret([m EXCEPT !.nid = @ + 1], [value EXCEPT !.id = m.nid + 1])

MkValid(m, v) == CreateValidation(m, [valid |-> v, id |-> 0])
MkInvalid(m, e) == CreateValidation(m, [invalid |-> <<e>>, id |-> 0])

ValidationMatch(m, validation, onInvalid, onValid) ==
    IF IsValid(validation) THEN Call(m, onValid, validation.valid)
                           ELSE Call(m, onInvalid, validation.invalid)

ValidationFilterOrElse(m, validation, predicate, onInvalid) ==
    ValidationMatch(m, validation, [clo |-> "const", v |-> validation],
                    [clo |-> "vfilt", predicate |-> predicate,
                     onInvalid |-> onInvalid, self |-> validation])

\* map that applies the mapper twice.
ValidationMapTwice(m, validation, mapper) ==
    ValidationMatch(m, validation, [clo |-> "const", v |-> validation],
                    [clo |-> "vmapWrap",
                     mapper |-> [clo |-> "compose2", f |-> mapper, g |-> mapper]])

ValidationMap(m, validation, mapper) ==
    ValidationMatch(m, validation, [clo |-> "const", v |-> validation],
                    [clo |-> "vmapWrap", mapper |-> mapper])

\* ap that short-circuits as Either's does: an Invalid receiver is returned
\* with its own errors only.
ValidationApShortCircuit(m, this, arg) ==
    IF IsValid(this)
    THEN ValidationMatch(m, this, [clo |-> "apInvalid", arg |-> arg],
                         [clo |-> "apValid", arg |-> arg])
    ELSE CreateValidation(m, [invalid |-> this.invalid, id |-> 0])

\* ap that, of two Invalids, keeps the receiver's errors and only the first
\* error of the argument.
ValidationApFirstOfArg(m, this, arg) ==
    IF ~IsValid(this) /\ ~IsValid(arg)
    THEN CreateValidation(m, [invalid |-> Append(this.invalid, arg.invalid[1]), id |-> 0])
    ELSE ValidationMatch(m, this, [clo |-> "apInvalid", arg |-> arg],
                         [clo |-> "apValid", arg |-> arg])

ValidationAp(m, this, arg) ==
    ValidationMatch(m, this, [clo |-> "apInvalid", arg |-> arg],
                    [clo |-> "apValid", arg |-> arg])

ValidationZip(m, validation, valA) ==
    LET r == ValidationMap(m, validation, [clo |-> "tupler"])
    IN  IF r.ok THEN ValidationAp(r.m, r.v, valA) ELSE r

ValidationTap(m, validation, sideEffect) ==
    LET r == ValidationMatch(m, validation, [clo |-> "noop"], sideEffect)
    IN  IF r.ok THEN Ret(r.m, validation) ELSE r

ValidationTapInvalid(m, validation, sideEffect) ==
    LET r == ValidationMatch(m, validation, sideEffect, [clo |-> "noop"])
    IN  IF r.ok THEN Ret(r.m, validation) ELSE r

ValidationToResult(validation) ==
    IF IsValid(validation) THEN [ok |-> TRUE, value |-> validation.valid]
                           ELSE [ok |-> FALSE, errors |-> validation.invalid]

ValidationClosure(m, f, arg) ==
    CASE f.clo = "vfilt" ->
            LET p == Call(m, f.predicate, arg)
            IN  IF ~p.ok THEN p
                ELSE IF p.v THEN Ret(p.m, f.self)
                ELSE LET e == Call(p.m, f.onInvalid, 0)
                     IN  IF e.ok THEN CreateValidation(e.m, [invalid |-> <<e.v>>, id |-> 0])
                                 ELSE e
      [] f.clo = "vmapWrap" ->
            LET r == Call(m, f.mapper, arg)
            IN  IF r.ok THEN CreateValidation(r.m, [valid |-> r.v, id |-> 0]) ELSE r
      [] f.clo = "apInvalid" ->
            ValidationMatch(m, f.arg, [clo |-> "apBoth", errors1 |-> arg],
                            [clo |-> "apFirst", errors1 |-> arg])
      [] f.clo = "apBoth" ->
            CreateValidation(m, [invalid |-> f.errors1 \o arg, id |-> 0])
      [] f.clo = "apFirst" ->
            CreateValidation(m, [invalid |-> f.errors1, id |-> 0])
      [] f.clo = "apValid" ->
            ValidationMatch(m, f.arg, [clo |-> "apSecond"],
                            [clo |-> "apApply", fn |-> arg])
      [] f.clo = "apSecond" ->
            CreateValidation(m, [invalid |-> arg, id |-> 0])
      [] f.clo = "apApply" ->
            LET r == Call(m, f.fn, arg)
            IN  IF r.ok THEN CreateValidation(r.m, [valid |-> r.v, id |-> 0]) ELSE r
      [] f.clo = "toInvalid" -> MkInvalid(m, arg)
      [] f.clo = "toValid" -> MkValid(m, arg)
      [] f.clo = "noneToInvalid" ->
            LET e == Call(m, f.onNone, 0)
            IN  IF e.ok THEN MkInvalid(e.m, e.v) ELSE e

\* --------------------------------------------------------------- Option
\* An Option holds { some: v } or the symbol NONE.
IsSome(optionValue) == "some" \in DOMAIN optionValue

CreateOption(m, optionValue) ==
    Ret([m EXCEPT !.nid = @ + 1], [optionValue EXCEPT !.id = m.nid + 1])

NONE == [none |-> "None", id |-> 0]
MkSome(m, v) == CreateOption(m, [some |-> v, id |-> 0])
MkNone(m) == CreateOption(m, NONE)

OptionMatch(m, option, onNone, onSome) ==
    IF IsSome(option) THEN Call(m, onSome, option.some) ELSE Call(m, onNone, 0)

OptionFlatMap(m, option, mapper) ==
    OptionMatch(m, option, [clo |-> "const", v |-> option], mapper)

OptionFilter(m, option, predicate) ==
    OptionFlatMap(m, option, [clo |-> "ofilt", predicate |-> predicate, self |-> option])

\* map that evaluates the mapper even when there is no value.
OptionMapEager(m, option, mapper) ==
    IF IsSome(option)
    THEN OptionFlatMap(m, option, [clo |-> "omapWrap", mapper |-> mapper])
    ELSE LET r == Call(m, mapper, 0)
         IN  IF r.ok THEN CreateOption(r.m, NONE) ELSE r

OptionMap(m, option, mapper) ==
    OptionFlatMap(m, option, [clo |-> "omapWrap", mapper |-> mapper])

OptionOrElse(m, option, fallback) ==
    OptionMatch(m, option, fallback, [clo |-> "const", v |-> option])

OptionAp(m, this, optA) == OptionFlatMap(m, this, [clo |-> "oapInner", optA |-> optA])

OptionZip(m, option, optA) ==
    LET r == OptionMap(m, option, [clo |-> "tupler"])
    IN  IF r.ok THEN OptionAp(r.m, r.v, optA) ELSE r

OptionFlatten(m, this) == OptionFlatMap(m, this, [clo |-> "id"])

OptionTap(m, option, sideEffect) ==
    LET r == OptionMatch(m, option, [clo |-> "noop"], sideEffect)
    IN  IF r.ok THEN Ret(r.m, option) ELSE r

OptionTapNone(m, option, sideEffect) ==
    LET r == OptionMatch(m, option, sideEffect, [clo |-> "noop"])
    IN  IF r.ok THEN Ret(r.m, option) ELSE r

OptionGetOrElse(m, option, fallback) == OptionMatch(m, option, fallback, [clo |-> "id"])

OptionToArray(m, option) ==
    OptionMatch(m, option, [clo |-> "emptyArray"], [clo |-> "singleton"])

OptionClosure(m, f, arg) ==
    CASE f.clo = "ofilt" ->
            LET p == Call(m, f.predicate, arg)
            IN  IF ~p.ok THEN p
                ELSE IF p.v THEN Ret(p.m, f.self) ELSE CreateOption(p.m, NONE)
      [] f.clo = "omapWrap" ->
            LET r == Call(m, f.mapper, arg)
            IN  IF r.ok THEN CreateOption(r.m, [some |-> r.v, id |-> 0]) ELSE r
      [] f.clo = "oapInner" ->
            OptionMatch(m, f.optA, [clo |-> "mkNone"], [clo |-> "oapApply", fn |-> arg])
      [] f.clo = "mkNone" -> CreateOption(m, NONE)
      [] f.clo = "oapApply" ->
            LET r == Call(m, f.fn, arg)
            IN  IF r.ok THEN CreateOption(r.m, [some |-> r.v, id |-> 0]) ELSE r
      [] f.clo = "emptyArray" -> Ret(m, <<>>)
      [] f.clo = "singleton" -> Ret(m, <<arg>>)

\* ------------------------------------------------------------- promises
\* A promise: its state and value, the reactions registered while it is
\* pending, the producer that returned it (src) and the promises it was
\* derived from (deps).  Promise.all keeps its partial result in vals / todo.
NewPromise(m, state, value, src, deps) ==
    Ret([m EXCEPT !.promises =
            Append(@, [state |-> state, value |-> value, src |-> src, rx |-> <<>>,
                       deps |-> deps, vals |-> [i \in 1 .. Len(deps) |-> 0],
                       todo |-> Len(deps)])],
        Len(m.promises) + 1)

PromiseResolve(m, value) == NewPromise(m, "fulfilled", value, "resolve", <<>>)

\* A reaction waits on a pending promise and is queued at once on a settled one.
Register(m, p, r) ==
    IF m.promises[p].state = "pending"
    THEN [m EXCEPT !.promises[p].rx = Append(@, r)]
    ELSE [m EXCEPT !.jobs = Append(@, [r |-> r, p |-> p])]

\* Settling queues the promise's reactions in registration order; a settled
\* promise never changes.
SettlePromise(m, p, state, value) ==
    IF m.promises[p].state # "pending" THEN m
    ELSE [m EXCEPT !.promises[p].state = state,
                   !.promises[p].value = value,
                   !.promises[p].rx = <<>>,
                   !.jobs = @ \o [i \in 1 .. Len(m.promises[p].rx) |->
                                     [r |-> m.promises[p].rx[i], p |-> p]]]

None == [clo |-> "none"]

\* p.then(onFul, onRej)
Then(m, p, onFul, onRej) ==
    LET d == NewPromise(m, "pending", 0, "then", <<p>>)
    IN  Ret(Register(d.m, p, [kind |-> "then", onFul |-> onFul, onRej |-> onRej,
                              out |-> d.v]), d.v)

RECURSIVE RegisterAll(_, _, _, _)
RegisterAll(m, ps, i, out) ==
    IF i > Len(ps) THEN m
    ELSE RegisterAll(Register(m, ps[i], [kind |-> "allElem", index |-> i, out |-> out]),
                     ps, i + 1, out)

\* Promise.all that never looks at its promises.
PromiseAllDeaf(m, ps) == NewPromise(m, "pending", 0, "all", ps)

\* Promise.all(ps)
PromiseAll(m, ps) ==
    IF ps = <<>> THEN NewPromise(m, "fulfilled", <<>>, "all", <<>>)
    ELSE LET d == NewPromise(m, "pending", 0, "all", ps)
         IN  Ret(RegisterAll(d.m, ps, 1, d.v), d.v)

\* The callbacks that return a promise: the derived promise adopts it.
ReturnsPromise(h) == h.clo \in {"kFlatMap", "kOrElse"}

\* One microtask.
RunJob(m, job) ==
    LET r == job.r
        p == m.promises[job.p]
    IN  CASE r.kind = "then" ->
                LET h == IF p.state = "fulfilled" THEN r.onFul ELSE r.onRej
                IN  IF h.clo = "none" THEN SettlePromise(m, r.out, p.state, p.value)
                    ELSE LET c == Call(m, h, p.value)
                         IN  IF ~c.ok THEN SettlePromise(c.m, r.out, "rejected", c.v)
                             ELSE IF ReturnsPromise(h)
                             THEN [c.m EXCEPT
                                     !.promises[r.out].deps = Append(@, c.v),
                                     !.jobs = Append(@, [r |-> [kind |-> "adopt", out |-> r.out],
                                                         p |-> c.v])]
                             ELSE SettlePromise(c.m, r.out, "fulfilled", c.v)
          [] r.kind = "adopt" -> Register(m, job.p, [kind |-> "forward", out |-> r.out])
          [] r.kind = "forward" -> SettlePromise(m, r.out, p.state, p.value)
          [] r.kind = "allElem" ->
                IF p.state = "rejected" THEN SettlePromise(m, r.out, "rejected", p.value)
                ELSE LET vals == [m.promises[r.out].vals EXCEPT ![r.index] = p.value]
                         m1 == [m EXCEPT !.promises[r.out].vals = vals,
                                         !.promises[r.out].todo = @ - 1]
                     IN  IF m1.promises[r.out].todo = 0
                         THEN SettlePromise(m1, r.out, "fulfilled", vals)
                         ELSE m1

\* ----------------------------------------------------------- TaskEither
\* A TaskEither is its thunk, a closure that createTaskEither only stores;
\* run() calls it.
CreateTaskEither(m, thunk) == Ret(m, thunk)

\* A Task is its thunk as well.
CreateTask(m, thunk) == Ret(m, thunk)

\* run that hands out the promise of the first run again.
TERunMemo(m, te) == IF runs # <<>> /\ runs[1] # 0 THEN Ret(m, runs[1]) ELSE Call(m, te, 0)

TERun(m, te) == Call(m, te, 0)

TEtaskEither(m, value) == CreateTaskEither(m, [clo |-> "thunkTaskEither", value |-> value])

TEtaskLeft(m, error) == CreateTaskEither(m, [clo |-> "thunkTaskLeft", error |-> error])

TEfromEither(m, either) == CreateTaskEither(m, [clo |-> "thunkFromEither", either |-> either])

TEfromTask(m, t) == CreateTaskEither(m, [clo |-> "thunkFromTask", t |-> t])

\* tryCatch that calls the thunk when the description is constructed.
TEtryCatchEager(m, thunk, onThrow) ==
    LET p == Call(m, thunk, 0)
    IN  CreateTaskEither(p.m, [clo |-> "thunkTryCatch", thunk |-> thunk,
                               onThrow |-> onThrow])

TEtryCatch(m, thunk, onThrow) ==
    CreateTaskEither(m, [clo |-> "thunkTryCatch", thunk |-> thunk, onThrow |-> onThrow])

TEall(m, taskEithers) == CreateTaskEither(m, [clo |-> "thunkAll", taskEithers |-> taskEithers])

TEFlatMap(m, te, mapper) ==
    CreateTaskEither(m, [clo |-> "thunkFlatMap", thunk |-> te, mapper |-> mapper])

TEMap(m, te, mapper) == TEFlatMap(m, te, [clo |-> "teMapInner", mapper |-> mapper])

TEMapLeft(m, te, mapper) ==
    CreateTaskEither(m, [clo |-> "thunkMapLeft", thunk |-> te, mapper |-> mapper])

TEAp(m, this, arg) == CreateTaskEither(m, [clo |-> "thunkAp", this |-> this, arg |-> arg])

TEZip(m, te, other) ==
    LET r == TEMap(m, te, [clo |-> "tupler"])
    IN  IF r.ok THEN TEAp(r.m, r.v, other) ELSE r

TEFlatten(m, this) == TEFlatMap(m, this, [clo |-> "id"])

TETap(m, te, sideEffect) ==
    CreateTaskEither(m, [clo |-> "thunkTap", thunk |-> te, sideEffect |-> sideEffect])

TETapLeft(m, te, sideEffect) ==
    CreateTaskEither(m, [clo |-> "thunkTapLeft", thunk |-> te, sideEffect |-> sideEffect])

TEMatch(m, te, onLeft, onRight) ==
    CreateTask(m, [clo |-> "thunkMatch", thunk |-> te, onLeft |-> onLeft, onRight |-> onRight])

TEGetOrElse(m, te, fallback) ==
    CreateTask(m, [clo |-> "thunkGetOrElse", thunk |-> te, fallback |-> fallback])

TEOrElse(m, te, fallback) ==
    CreateTaskEither(m, [clo |-> "thunkOrElse", thunk |-> te, fallback |-> fallback])

\* thunk().then(onFul, onRej); a throw of thunk() propagates.
ThunkThen(m, thunk, onFul, onRej) ==
    LET p == Call(m, thunk, 0)
    IN  IF p.ok THEN Then(p.m, p.v, onFul, onRej) ELSE p

\* The thunks createTaskEither is given.
ThunkTaskEither(m, f) ==
    LET e == MkRight(m, f.value) IN PromiseResolve(e.m, e.v)

ThunkTaskLeft(m, f) ==
    LET e == MkLeft(m, f.error) IN PromiseResolve(e.m, e.v)

ThunkFromEither(m, f) == PromiseResolve(m, f.either)

ThunkFromTask(m, f) == ThunkThen(m, f.t, [clo |-> "kRight"], None)

\* tryCatch without the rejection handler.
ThunkTryCatchNoHandler(m, f) == ThunkThen(m, f.thunk, [clo |-> "kRight"], None)

ThunkTryCatch(m, f) ==
    ThunkThen(m, f.thunk, [clo |-> "kRight"], [clo |-> "kOnThrow", onThrow |-> f.onThrow])

ThunkMapInner(m, f) ==
    LET r == Call(m, f.mapper, f.rightVal)
    IN  IF ~r.ok THEN r
        ELSE LET e == MkRight(r.m, r.v) IN PromiseResolve(e.m, e.v)

ThunkMapLeft(m, f) == ThunkThen(m, f.thunk, [clo |-> "kMapLeft", mapper |-> f.mapper], None)

ThunkAp(m, f) ==
    LET p1 == TERun(m, f.this)
    IN  IF ~p1.ok THEN p1
        ELSE LET p2 == TERun(p1.m, f.arg)
             IN  IF ~p2.ok THEN p2
                 ELSE LET pa == PromiseAll(p2.m, <<p1.v, p2.v>>)
                      IN  Then(pa.m, pa.v, [clo |-> "kAp"], None)

ThunkFlatMap(m, f) == ThunkThen(m, f.thunk, [clo |-> "kFlatMap", mapper |-> f.mapper], None)

ThunkTap(m, f) == ThunkThen(m, f.thunk, [clo |-> "kTap", sideEffect |-> f.sideEffect], None)

ThunkTapLeft(m, f) ==
    ThunkThen(m, f.thunk, [clo |-> "kTapLeft", sideEffect |-> f.sideEffect], None)

ThunkMatch(m, f) ==
    ThunkThen(m, f.thunk, [clo |-> "kMatch", onLeft |-> f.onLeft, onRight |-> f.onRight], None)

ThunkGetOrElse(m, f) ==
    ThunkThen(m, f.thunk, [clo |-> "kGetOrElse", fallback |-> f.fallback], None)

ThunkOrElse(m, f) == ThunkThen(m, f.thunk, [clo |-> "kOrElse", fallback |-> f.fallback], None)

\* taskEithers.map((te) => te.run())
RECURSIVE RunEach(_, _, _, _)
RunEach(m, taskEithers, i, ps) ==
    IF i > Len(taskEithers) THEN Ret(m, ps)
    ELSE LET p == TERun(m, taskEithers[i])
         IN  IF p.ok THEN RunEach(p.m, taskEithers, i + 1, Append(ps, p.v)) ELSE p

ThunkAll(m, f) ==
    LET ps == RunEach(m, f.taskEithers, 1, <<>>)
    IN  IF ~ps.ok THEN ps
        ELSE LET pa == PromiseAll(ps.m, ps.v)
             IN  Then(pa.m, pa.v, [clo |-> "kAll"], None)

\* The callbacks given to then.
KRight(m, f, value) == MkRight(m, value)

KOnThrow(m, f, err) ==
    LET e == Call(m, f.onThrow, err)
    IN  IF e.ok THEN MkLeft(e.m, e.v) ELSE e

KMapLeft(m, f, either) ==
    IF IsLeft(either)
    THEN LET e == Call(m, f.mapper, either.left)
         IN  IF e.ok THEN MkLeft(e.m, e.v) ELSE e
    ELSE MkRight(m, either.right)

\* The combination with the argument's Left winning.
KApArgFirst(m, f, eithers) == EitherApArgFirst(m, eithers[1], eithers[2])

KAp(m, f, eithers) == EitherAp(m, eithers[1], eithers[2])

\* flatMap's callback evaluating the mapper before it looks at the variant.
KFlatMapEager(m, f, either) ==
    LET t == Call(m, f.mapper, IF IsLeft(either) THEN 0 ELSE either.right)
    IN  IF ~t.ok THEN t
        ELSE IF IsLeft(either)
        THEN LET e == MkLeft(t.m, either.left) IN PromiseResolve(e.m, e.v)
        ELSE TERun(t.m, t.v)

KFlatMap(m, f, either) ==
    IF IsLeft(either)
    THEN LET e == MkLeft(m, either.left) IN PromiseResolve(e.m, e.v)
    ELSE LET t == Call(m, f.mapper, either.right)
         IN  IF t.ok THEN TERun(t.m, t.v) ELSE t

KTap(m, f, either) ==
    LET r == EitherTap(m, either, f.sideEffect)
    IN  IF r.ok THEN Ret(r.m, either) ELSE r

KTapLeft(m, f, either) ==
    LET r == EitherMatch(m, either, f.sideEffect, [clo |-> "noop"])
    IN  IF r.ok THEN Ret(r.m, either) ELSE r

KMatch(m, f, either) == EitherMatch(m, either, f.onLeft, f.onRight)

KGetOrElse(m, f, either) == EitherGetOrElse(m, either, f.fallback)

\* orElse whose callback runs the fallback on a Right as well.
KOrElseAlways(m, f, either) ==
    LET t == Call(m, f.fallback, IF IsLeft(either) THEN either.left ELSE either.right)
    IN  IF t.ok THEN TERun(t.m, t.v) ELSE t

KOrElse(m, f, either) ==
    IF IsLeft(either)
    THEN LET t == Call(m, f.fallback, either.left)
         IN  IF t.ok THEN TERun(t.m, t.v) ELSE t
    ELSE PromiseResolve(m, either)

RECURSIVE AllLoop(_, _, _, _)
AllLoop(m, eithers, i, out) ==
    IF i > Len(eithers) THEN MkRight(m, out)
    ELSE LET result == EitherToResult(eithers[i])
         IN  IF ~result.ok THEN MkLeft(m, result.error)
             ELSE AllLoop(m, eithers, i + 1, Append(out, result.value))

\* The loop of all run from the last element to the first: of several Lefts
\* the last one is returned.
RECURSIVE AllLoopBack(_, _, _, _)
AllLoopBack(m, eithers, i, out) ==
    IF i < 1 THEN MkRight(m, out)
    ELSE LET result == EitherToResult(eithers[i])
         IN  IF ~result.ok THEN MkLeft(m, result.error)
             ELSE AllLoopBack(m, eithers, i - 1, <<result.value>> \o out)

KAllLastLeft(m, f, eithers) == AllLoopBack(m, eithers, Len(eithers), <<>>)

KAll(m, f, eithers) == AllLoop(m, eithers, 1, <<>>)

\* (rightVal) => createTaskEither(() => Promise.resolve(right(mapper(rightVal))))
MapInner(m, f, rightVal) ==
    CreateTaskEither(m, [clo |-> "thunkMapInner", mapper |-> f.mapper,
                         rightVal |-> rightVal])

TEClosure(m, f, arg) ==
    CASE f.clo = "thunkTaskEither" -> ThunkTaskEither(m, f)
      [] f.clo = "thunkTaskLeft" -> ThunkTaskLeft(m, f)
      [] f.clo = "thunkFromEither" -> ThunkFromEither(m, f)
      [] f.clo = "thunkFromTask" -> ThunkFromTask(m, f)
      [] f.clo = "thunkTryCatch" -> ThunkTryCatch(m, f)
      [] f.clo = "thunkMapInner" -> ThunkMapInner(m, f)
      [] f.clo = "thunkMapLeft" -> ThunkMapLeft(m, f)
      [] f.clo = "thunkAp" -> ThunkAp(m, f)
      [] f.clo = "thunkFlatMap" -> ThunkFlatMap(m, f)
      [] f.clo = "thunkTap" -> ThunkTap(m, f)
      [] f.clo = "thunkTapLeft" -> ThunkTapLeft(m, f)
      [] f.clo = "thunkMatch" -> ThunkMatch(m, f)
      [] f.clo = "thunkGetOrElse" -> ThunkGetOrElse(m, f)
      [] f.clo = "thunkOrElse" -> ThunkOrElse(m, f)
      [] f.clo = "thunkAll" -> ThunkAll(m, f)
      [] f.clo = "teMapInner" -> MapInner(m, f, arg)
      [] f.clo = "kRight" -> KRight(m, f, arg)
      [] f.clo = "kOnThrow" -> KOnThrow(m, f, arg)
      [] f.clo = "kMapLeft" -> KMapLeft(m, f, arg)
      [] f.clo = "kAp" -> KAp(m, f, arg)
      [] f.clo = "kFlatMap" -> KFlatMap(m, f, arg)
      [] f.clo = "kTap" -> KTap(m, f, arg)
      [] f.clo = "kTapLeft" -> KTapLeft(m, f, arg)
      [] f.clo = "kMatch" -> KMatch(m, f, arg)
      [] f.clo = "kGetOrElse" -> KGetOrElse(m, f, arg)
      [] f.clo = "kOrElse" -> KOrElse(m, f, arg)
      [] f.clo = "kAll" -> KAll(m, f, arg)

\* ---------------------------------- the caller-supplied functions' bodies
Producers == {"A", "B", "C", "F", "T"}

OnThrowOf(err) ==
    CASE err = "errA" -> "caughtA"
      [] err = "errB" -> "caughtB"
      [] err = "errC" -> "caughtC"
      [] err = "errF" -> "caughtF"
      [] OTHER -> "caughtX"

UserBody(m, name, arg) ==
    CASE name = "inc" -> Ret(m, (arg + 1) % (MaxVal + 1))
      [] name = "zero" -> Ret(m, 0)
      [] name = "adder" -> Ret(m, [clo |-> "user", name |-> "add", k |-> arg])
      [] name = "toRight" -> MkRight(m, arg)
      [] name = "toLeft" -> MkLeft(m, "e2")
      [] name = "decOrLeft" -> IF arg = 0 THEN MkLeft(m, "e2") ELSE MkRight(m, arg - 1)
      [] name = "isZero" -> Ret(m, arg = 0)
      [] name = "always" -> Ret(m, TRUE)
      [] name = "mkErr" -> Ret(m, "e3")
      [] name = "effect" -> Ret(m, 0)
      [] name = "boom" -> Throw(m, "boom")
      [] name \in Producers -> NewPromise(m, "pending", 0, name, <<>>)
      [] name = "X" -> Throw(m, "errX")
      [] name = "onThrow" -> Ret(m, OnThrowOf(arg))
      [] name = "relabel" -> Ret(m, "e9")
      [] name = "toTE" -> TEtaskEither(m, (arg + 1) % (MaxVal + 1))
      [] name = "toTL" -> TEtaskLeft(m, "e2")
      [] name = "toAsync" -> TEtryCatch(m, User("B"), User("onThrow"))
      [] name = "recover" -> TEtaskEither(m, 0)
      [] name = "toSome" -> MkSome(m, (arg + 1) % (MaxVal + 1))
      [] name = "toNone" -> MkNone(m)
      [] name = "orSome" -> MkSome(m, 0)
      [] name = "orRight" -> MkRight(m, 0)
      [] name = "orLeft" -> MkLeft(m, "e3")
      [] name = "dflt" -> Ret(m, 0)
      [] name = "effectN" -> Ret(m, 0)
      [] name = "sub2" -> Ret(m, (arg[1] - arg[2]) % (MaxVal + 1))
      [] name = "sub3" -> Ret(m, (arg[1] - arg[2] - arg[3]) % (MaxVal + 1))
      [] name = "append" -> Ret(m, Append(arg[1], arg[2]))
      [] name = "some" -> MkSome(m, arg)
      [] name = "decOrNone" -> IF arg = 0 THEN MkNone(m) ELSE MkSome(m, arg - 1)
      [] name = "taskEither" -> TEtaskEither(m, arg)
      [] name = "decOrTL" -> IF arg = 0 THEN TEtaskLeft(m, "e2") ELSE TEtaskEither(m, arg - 1)

\* ------------------------------------------------- Either constructors
\* tryCatch that does not convert what was thrown.
EitherTryCatchRaw(m, fn, onThrow) ==
    LET r == Call(m, fn, 0)
    IN  IF r.ok THEN MkRight(r.m, r.v) ELSE MkLeft(r.m, r.v)

EitherTryCatch(m, fn, onThrow) ==
    LET r == Call(m, fn, 0)
    IN  IF r.ok THEN MkRight(r.m, r.v)
        ELSE LET e == Call(r.m, onThrow, r.v)
             IN  IF e.ok THEN MkLeft(e.m, e.v) ELSE e

\* -------------------------------------------------------- Option helpers
OptionMap2(m, optA, optB, mapper) ==
    LET r == OptionMap(m, optA, [clo |-> "curry2", mapper |-> mapper])
    IN  IF r.ok THEN OptionAp(r.m, r.v, optB) ELSE r

OptionMap3(m, optA, optB, optC, mapper) ==
    LET r == OptionMap(m, optA, [clo |-> "curry3", mapper |-> mapper])
    IN  IF ~r.ok THEN r
        ELSE LET q == OptionAp(r.m, r.v, optB)
             IN  IF q.ok THEN OptionAp(q.m, q.v, optC) ELSE q

\* !value for the first element of opt.toArray(): undefined when the array
\* is empty, and falsy for the payload 0.
NotValue(array) == array = <<>> \/ array[1] = 0

\* for (const opt of opts) { const [value] = opt.toArray();
\*   if (!value) return none(); out.push(value) }
RECURSIVE OptionSequenceLoop(_, _, _, _)
OptionSequenceLoop(m, opts, i, out) ==
    IF i > Len(opts) THEN MkSome(m, out)
    ELSE LET array == OptionToArray(m, opts[i])
         IN  IF ~array.ok THEN array
             ELSE IF NotValue(array.v) THEN MkNone(array.m)
             ELSE OptionSequenceLoop(array.m, opts, i + 1, Append(out, array.v[1]))

OptionSequence(m, opts) == OptionSequenceLoop(m, opts, 1, <<>>)

\* -------------------------------------------------------- Either helpers
\* map2 that maps over the second argument and applies to the first.
EitherMap2Swapped(m, eitherA, eitherB, mapper) ==
    LET r == EitherMap(m, eitherB, [clo |-> "curry2", mapper |-> mapper])
    IN  IF r.ok THEN EitherAp(r.m, r.v, eitherA) ELSE r

EitherMap2(m, eitherA, eitherB, mapper) ==
    LET r == EitherMap(m, eitherA, [clo |-> "curry2", mapper |-> mapper])
    IN  IF r.ok THEN EitherAp(r.m, r.v, eitherB) ELSE r

EitherMap3(m, eitherA, eitherB, eitherC, mapper) ==
    LET r == EitherMap(m, eitherA, [clo |-> "curry3", mapper |-> mapper])
    IN  IF ~r.ok THEN r
        ELSE LET q == EitherAp(r.m, r.v, eitherB)
             IN  IF q.ok THEN EitherAp(q.m, q.v, eitherC) ELSE q

\* for (const either of eithers) { result = either.toResult();
\*   if (!result.ok) return left(result.error); out.push(result.value) }
RECURSIVE EitherSequenceLoop(_, _, _, _)
EitherSequenceLoop(m, eithers, i, out) ==
    IF i > Len(eithers) THEN MkRight(m, out)
    ELSE LET result == EitherToResult(eithers[i])
         IN  IF ~result.ok THEN MkLeft(m, result.error)
             ELSE EitherSequenceLoop(m, eithers, i + 1, Append(out, result.value))

\* sequence that goes through the whole list and keeps the last Left.
EitherSequenceLastLeft(m, eithers) ==
    LET bad == {i \in DOMAIN eithers : IsLeft(eithers[i])}
        lastBad == CHOOSE i \in bad : \A j \in bad : j <= i
    IN  IF bad # {} THEN MkLeft(m, eithers[lastBad].left)
        ELSE MkRight(m, [i \in DOMAIN eithers |-> eithers[i].right])

EitherSequence(m, eithers) == EitherSequenceLoop(m, eithers, 1, <<>>)

\* ---------------------------------------------------- Validation helpers
ValidationFromEither(m, either) ==
    EitherMatch(m, either, [clo |-> "toInvalid"], [clo |-> "toValid"])

ValidationFromOption(m, opt, onNone) ==
    OptionMatch(m, opt, [clo |-> "noneToInvalid", onNone |-> onNone], [clo |-> "toValid"])

\* map2 that maps over the second argument and applies to the first.
ValidationMap2Swapped(m, valA, valB, mapper) ==
    LET r == ValidationMap(m, valB, [clo |-> "curry2", mapper |-> mapper])
    IN  IF r.ok THEN ValidationAp(r.m, r.v, valA) ELSE r

ValidationMap2(m, valA, valB, mapper) ==
    LET r == ValidationMap(m, valA, [clo |-> "curry2", mapper |-> mapper])
    IN  IF r.ok THEN ValidationAp(r.m, r.v, valB) ELSE r

ValidationMap3(m, valA, valB, valC, mapper) ==
    LET r == ValidationMap(m, valA, [clo |-> "curry3", mapper |-> mapper])
    IN  IF ~r.ok THEN r
        ELSE LET q == ValidationAp(r.m, r.v, valB)
             IN  IF q.ok THEN ValidationAp(q.m, q.v, valC) ELSE q

\* The loop of sequence putting each element's errors before the ones
\* collected so far.
RECURSIVE ValidationSequenceLoopBack(_, _, _, _)
ValidationSequenceLoopBack(validations, i, errors, values) ==
    IF i > Len(validations) THEN [errors |-> errors, values |-> values]
    ELSE IF IsValid(validations[i])
    THEN ValidationSequenceLoopBack(validations, i + 1, errors,
                                    Append(values, validations[i].valid))
    ELSE ValidationSequenceLoopBack(validations, i + 1,
                                    validations[i].invalid \o errors, values)

\* for (const v of validations) v.match(errs => errors.push(...errs),
\*                                       value => values.push(value))
RECURSIVE ValidationSequenceLoop(_, _, _, _)
ValidationSequenceLoop(validations, i, errors, values) ==
    IF i > Len(validations) THEN [errors |-> errors, values |-> values]
    ELSE IF IsValid(validations[i])
    THEN ValidationSequenceLoop(validations, i + 1, errors,
                                Append(values, validations[i].valid))
    ELSE ValidationSequenceLoop(validations, i + 1,
                                errors \o validations[i].invalid, values)

\* sequence that is Invalid whenever the list is not empty.
ValidationSequenceInvalid(m, validations) ==
    LET acc == ValidationSequenceLoop(validations, 1, <<>>, <<>>)
    IN  IF Len(validations) > 0
        THEN CreateValidation(m, [invalid |-> acc.errors, id |-> 0])
        ELSE CreateValidation(m, [valid |-> acc.values, id |-> 0])

\* sequence that returns at the first Invalid element, as Either's does.
ValidationSequenceFirst(m, validations) ==
    LET bad == {i \in DOMAIN validations : ~IsValid(validations[i])}
        first == CHOOSE i \in bad : \A j \in bad : i <= j
    IN  IF bad # {}
        THEN CreateValidation(m, [invalid |-> validations[first].invalid, id |-> 0])
        ELSE CreateValidation(m, [valid |-> [i \in DOMAIN validations |->
                                                validations[i].valid], id |-> 0])

ValidationSequence(m, validations) ==
    LET acc == ValidationSequenceLoop(validations, 1, <<>>, <<>>)
    IN  IF Len(acc.errors) > 0
        THEN CreateValidation(m, [invalid |-> acc.errors, id |-> 0])
        ELSE CreateValidation(m, [valid |-> acc.values, id |-> 0])

\* validations.reduce((acc, v) => map2(acc, v, (xs, x) => [...xs, x]), valid([]))
RECURSIVE ValidationFoldMap2(_, _, _, _)
ValidationFoldMap2(m, validations, i, acc) ==
    IF i > Len(validations) THEN Ret(m, acc)
    ELSE LET r == ValidationMap2(m, acc, validations[i], User("append"))
         IN  IF r.ok THEN ValidationFoldMap2(r.m, validations, i + 1, r.v) ELSE r

ValidationFold(m, validations) ==
    LET acc == MkValid(m, <<>>)
    IN  ValidationFoldMap2(acc.m, validations, 1, acc.v)

\* The curried mappers map2 and map3 build.
HelperClosure(m, f, arg) ==
    CASE f.clo = "curry2" -> Ret(m, [clo |-> "curry2a", mapper |-> f.mapper, a |-> arg])
      [] f.clo = "curry2a" -> Call(m, f.mapper, <<f.a, arg>>)
      [] f.clo = "curry3" -> Ret(m, [clo |-> "curry3a", mapper |-> f.mapper, a |-> arg])
      [] f.clo = "curry3a" ->
            Ret(m, [clo |-> "curry3b", mapper |-> f.mapper, a |-> f.a, b |-> arg])
      [] f.clo = "curry3b" -> Call(m, f.mapper, <<f.a, f.b, arg>>)

\* ------------------------------------------------------ closure dispatch
EitherClosures ==
    {"const", "id", "noop", "mapWrap", "apInner", "applyTo", "tupler", "pair", "filt"}
ValidationClosures ==
    {"vfilt", "vmapWrap", "apInvalid", "apBoth", "apFirst", "apValid", "apSecond", "apApply",
     "toInvalid", "toValid", "noneToInvalid"}
HelperClosures == {"curry2", "curry2a", "curry3", "curry3a", "curry3b"}
OptionClosures ==
    {"ofilt", "omapWrap", "oapInner", "mkNone", "oapApply", "emptyArray", "singleton"}

\* The functions the applicative law suite builds: f => f(arg), and
\* compose = f => g => x => f(g(x)).
LawClosure(m, f, arg) ==
    CASE f.clo = "applyArg" -> Call(m, arg, f.arg)
      [] f.clo = "compose" -> Ret(m, [clo |-> "compose1", f |-> arg])
      [] f.clo = "compose1" -> Ret(m, [clo |-> "compose2", f |-> f.f, g |-> arg])
      [] f.clo = "compose2" ->
            LET r == Call(m, f.g, arg)
            IN  IF r.ok THEN Call(r.m, f.f, r.v) ELSE r

LawClosures == {"applyArg", "compose", "compose1", "compose2"}

\* The families' flatMap, as the law suites receive it.
MonadFlatMap(fam, m, c, mapper) ==
    CASE fam = "Either" -> EitherFlatMap(m, c, mapper)
      [] fam = "Option" -> OptionFlatMap(m, c, mapper)
      [] fam = "TaskEither" -> TEFlatMap(m, c, mapper)

\* x => f(x).flatMap(g)
AndThen(fam, f, g) == [clo |-> "user", name |-> "andThen", fam |-> fam, f |-> f, g |-> g]

UserCall(m, f, arg) ==
    IF f.name = "add" THEN Ret(LogCall(m, "add", arg), (f.k + arg) % (MaxVal + 1))
    ELSE IF f.name = "andThen"
    THEN LET r == Call(LogCall(m, "andThen", arg), f.f, arg)
         IN  IF r.ok THEN MonadFlatMap(f.fam, r.m, r.v, f.g) ELSE r
    ELSE UserBody(LogCall(m, f.name, arg), f.name, arg)

Call(m, f, arg) ==
    CASE f.clo = "user" -> UserCall(m, f, arg)
      [] f.clo \in EitherClosures -> EitherClosure(m, f, arg)
      [] f.clo \in ValidationClosures -> ValidationClosure(m, f, arg)
      [] f.clo \in HelperClosures -> HelperClosure(m, f, arg)
      [] f.clo \in OptionClosures -> OptionClosure(m, f, arg)
      [] f.clo \in LawClosures -> LawClosure(m, f, arg)
      [] OTHER -> TEClosure(m, f, arg)

\* ------------------------------------------------- the Either pipeline
Done(op, arg, r, t) ==
    /\ log' = r.m.log
    /\ nid' = r.m.nid
    /\ steps' = steps + 1
    /\ IF r.ok
       THEN /\ cur' = r.v
            /\ ty' = t
            /\ exc' = "none"
            /\ last' = [op |-> op, recv |-> cur, arg |-> arg, res |-> r.v,
                        calls |-> SubSeq(r.m.log, Len(log) + 1, Len(r.m.log))]
       ELSE /\ exc' = r.v
            /\ UNCHANGED <<cur, ty, last>>
    /\ UNCHANGED <<start, promises, jobs, runs, insync>>

CanStep == steps < MaxChain /\ exc = "none"
Typed(t) == IsLeft(cur) \/ ty = t

\* An argument of ap / zip, freshly constructed: right(v) or left(e).
ArgNum(m) == {MkRight(m, v) : v \in Vals} \cup {MkLeft(m, e) : e \in Errs}

EMap ==
    /\ CanStep /\ Typed("num")
    /\ \/ \E f \in NumMappers : Done("map", f, EitherMap(Machine, cur, f), "num")
       \/ \E f \in FnMappers : Done("map", f, EitherMap(Machine, cur, f), "fn")
       \/ \E f \in NestMappers : Done("map", f, EitherMap(Machine, cur, f), "nested")

EFlatMap ==
    /\ CanStep /\ Typed("num")
    /\ \E f \in EitherMappers : Done("flatMap", f, EitherFlatMap(Machine, cur, f), "num")

EAp ==
    /\ CanStep /\ Typed("fn")
    /\ \E a \in ArgNum(Machine) : Done("ap", a.v, EitherAp(a.m, cur, a.v), "num")

EZip ==
    /\ CanStep /\ Typed("num")
    /\ \E a \in ArgNum(Machine) : Done("zip", a.v, EitherZip(a.m, cur, a.v), "pair")

EFlatten ==
    /\ CanStep /\ Typed("nested")
    /\ Done("flatten", 0, EitherFlatten(Machine, cur), "num")

EFilterOrElse ==
    /\ CanStep /\ Typed("num")
    /\ \E p \in Predicates, o \in OnLefts :
          Done("filterOrElse", p, EitherFilterOrElse(Machine, cur, p, o), "num")

ETap ==
    /\ CanStep
    /\ \E s \in Effects : Done("tap", s, EitherTap(Machine, cur, s), ty)

NoLast == [op |-> "none"]

EInit ==
    /\ \/ \E r \in ArgNum(Machine0) : cur = r.v /\ ty = "num"
       \/ \E f \in FnPayloads : cur = MkRight(Machine0, f).v /\ ty = "fn"
    /\ start = cur
    /\ nid = 1
    /\ log = <<>>
    /\ steps = 0
    /\ last = NoLast
    /\ exc = "none"
    /\ promises = <<>>
    /\ jobs = <<>>
    /\ runs = <<>>
    /\ insync = FALSE

ENext == EMap \/ EFlatMap \/ EAp \/ EZip \/ EFlatten \/ EFilterOrElse \/ ETap

SpecEither == EInit /\ [][ENext]_vars

\* --------------------------------------------- the Validation pipeline
IsFailure(x) == "left" \in DOMAIN x \/ "invalid" \in DOMAIN x
TypedV(t) == ~IsValid(cur) \/ ty = t

\* An argument of ap / zip: valid(v), invalid(e), or an Invalid that has
\* already accumulated two errors.
ArgVal(m) ==
    {MkValid(m, v) : v \in Vals} \cup {MkInvalid(m, e) : e \in Errs}
    \cup {ValidationZip(MkInvalid(MkInvalid(m, "e2").m, "e1").m,
                         MkInvalid(m, "e2").v,
                         MkInvalid(MkInvalid(m, "e2").m, "e1").v)}

VMap ==
    /\ CanStep /\ TypedV("num")
    /\ \/ \E f \in NumMappers : Done("map", f, ValidationMap(Machine, cur, f), "num")
       \/ \E f \in FnMappers : Done("map", f, ValidationMap(Machine, cur, f), "fn")

VAp ==
    /\ CanStep /\ TypedV("fn")
    /\ \E a \in ArgVal(Machine) : Done("ap", a.v, ValidationAp(a.m, cur, a.v), "num")

VZip ==
    /\ CanStep /\ TypedV("num")
    /\ \E a \in ArgVal(Machine) : Done("zip", a.v, ValidationZip(a.m, cur, a.v), "pair")

VFilterOrElse ==
    /\ CanStep /\ TypedV("num")
    /\ \E p \in Predicates, o \in OnLefts :
          Done("filterOrElse", p, ValidationFilterOrElse(Machine, cur, p, o), "num")

VTap ==
    /\ CanStep
    /\ \E s \in Effects : Done("tap", s, ValidationTap(Machine, cur, s), ty)

VTapInvalid ==
    /\ CanStep
    /\ \E s \in Effects : Done("tapInvalid", s, ValidationTapInvalid(Machine, cur, s), ty)

VInit ==
    /\ \/ \E r \in ArgVal(Machine0) : cur = r.v /\ ty = "num"
       \/ \E f \in FnPayloads : cur = MkValid(Machine0, f).v /\ ty = "fn"
    /\ start = cur
    /\ nid = cur.id
    /\ log = <<>>
    /\ steps = 0
    /\ last = NoLast
    /\ exc = "none"
    /\ promises = <<>>
    /\ jobs = <<>>
    /\ runs = <<>>
    /\ insync = FALSE

VNext == VMap \/ VAp \/ VZip \/ VFilterOrElse \/ VTap \/ VTapInvalid

SpecValidation == VInit /\ [][VNext]_vars

\* ----------------------------------------- the Either library program
\* The pipeline of SpecEither extended with the helpers map2, map3 and
\* sequence, started from a constructor call.
CanHelp == steps < MaxLib /\ exc = "none"
SeqKinds == {"cur", "success", "failure"}

\* The lists given to sequence: the empty list, and every list of at most
\* MaxList elements that holds the current value once.
KindLists ==
    {l \in UNION {[1 .. n -> SeqKinds] : n \in 0 .. MaxList} :
        l = <<>> \/ Cardinality({i \in DOMAIN l : l[i] = "cur"}) = 1}

\* The i-th element of a list: the current value, right(i) or left(e).
EitherElem(m, k, i) ==
    CASE k = "cur" -> Ret(m, cur)
      [] k = "success" -> MkRight(m, i % (MaxVal + 1))
      [] k = "failure" -> MkLeft(m, IF i % 2 = 1 THEN "e1" ELSE "e2")

RECURSIVE EitherList(_, _, _, _)
EitherList(m, kinds, i, out) ==
    IF i > Len(kinds) THEN Ret(m, out)
    ELSE LET e == EitherElem(m, kinds[i], i)
         IN  EitherList(e.m, kinds, i + 1, Append(out, e.v))

ESequence ==
    /\ CanHelp
    /\ \E kinds \in KindLists :
          LET l == EitherList(Machine, kinds, 1, <<>>)
          IN  Done("sequence", l.v, EitherSequence(l.m, l.v), "list")

EMap2 ==
    /\ CanHelp /\ Typed("num")
    /\ \E b \in ArgNum(Machine), f \in Map2Mappers :
          Done("map2", <<b.v>>, EitherMap2(b.m, cur, b.v, f), "num")

\* The third argument of map3: right(2) or left("e2").
ArgNum3(m) == {MkRight(m, 2)} \cup {MkLeft(m, "e2")}

EMap3 ==
    /\ CanHelp /\ Typed("num")
    /\ \E b \in ArgNum(Machine), f \in Map3Mappers :
          \E c \in ArgNum3(b.m) :
             Done("map3", <<b.v, c.v>>, EitherMap3(c.m, cur, b.v, c.v, f), "num")

\* fn returns a number or throws; onThrow relabels the error or returns it.
TryThunks == {User("dflt"), User("boom")}
TryHandlers == {User("relabel"), [clo |-> "id"]}

ETryCatch ==
    /\ CanHelp
    /\ \E fn \in TryThunks, onThrow \in TryHandlers :
          Done("tryCatch", [fn |-> fn, onThrow |-> onThrow],
               EitherTryCatch(Machine, fn, onThrow), "num")

\* The first value: the result of a constructor call.
EStart(op, arg, r, t) ==
    /\ cur = r.v /\ ty = t /\ start = r.v
    /\ last = [op |-> op, recv |-> NoLast, arg |-> arg, res |-> r.v, calls |-> r.m.log]
    /\ log = r.m.log /\ nid = r.m.nid
    /\ steps = 0 /\ exc = "none"
    /\ promises = <<>> /\ jobs = <<>> /\ runs = <<>> /\ insync = FALSE

EInitLib ==
    \/ \E v \in Vals : EStart("right", v, MkRight(Machine0, v), "num")
    \/ \E f \in FnPayloads : EStart("right", f, MkRight(Machine0, f), "fn")
    \/ \E e \in Errs : EStart("left", e, MkLeft(Machine0, e), "num")

ENextLib == (CanHelp /\ ENext) \/ ESequence \/ EMap2 \/ EMap3 \/ ETryCatch

SpecEitherLib == EInitLib /\ [][ENextLib]_vars

\* ------------------------------------------------- the Option program
\* A constructor call followed by at most MaxLib method or helper calls.
TypedO(t) == ~IsSome(cur) \/ ty = t

\* An argument of ap / zip / map2 / map3: some(v) or none().
ArgOpt(m) == {MkSome(m, v) : v \in Vals} \cup {MkNone(m)}
ArgOpt3(m) == {MkSome(m, 2)} \cup {MkNone(m)}

\* A call that returns a plain value: the current Option stays.
Observed(op, arg, r) ==
    /\ log' = r.m.log
    /\ nid' = r.m.nid
    /\ steps' = steps + 1
    /\ IF r.ok
       THEN /\ exc' = "none"
            /\ last' = [op |-> op, recv |-> cur, arg |-> arg, res |-> r.v,
                        calls |-> SubSeq(r.m.log, Len(log) + 1, Len(r.m.log))]
       ELSE /\ exc' = r.v
            /\ UNCHANGED last
    /\ UNCHANGED <<start, cur, ty, promises, jobs, runs, insync>>

OMap ==
    /\ CanHelp /\ TypedO("num")
    /\ \/ \E f \in NumMappers : Done("map", f, OptionMap(Machine, cur, f), "num")
       \/ \E f \in FnMappers : Done("map", f, OptionMap(Machine, cur, f), "fn")

OFlatMap ==
    /\ CanHelp /\ TypedO("num")
    /\ \E f \in OptionMappers : Done("flatMap", f, OptionFlatMap(Machine, cur, f), "num")

OFilter ==
    /\ CanHelp /\ TypedO("num")
    /\ \E p \in Predicates : Done("filter", p, OptionFilter(Machine, cur, p), "num")

OAp ==
    /\ CanHelp /\ TypedO("fn")
    /\ \E a \in ArgOpt(Machine) : Done("ap", a.v, OptionAp(a.m, cur, a.v), "num")

OZip ==
    /\ CanHelp /\ TypedO("num")
    /\ \E a \in ArgOpt(Machine) : Done("zip", a.v, OptionZip(a.m, cur, a.v), "pair")

OFlatten ==
    /\ CanHelp /\ TypedO("nested")
    /\ Done("flatten", 0, OptionFlatten(Machine, cur), "num")

OTap ==
    /\ CanHelp
    /\ \E f \in Effects : Done("tap", f, OptionTap(Machine, cur, f), ty)

OTapNone ==
    /\ CanHelp
    /\ \E f \in NoneEffects : Done("tapNone", f, OptionTapNone(Machine, cur, f), ty)

OOrElse ==
    /\ CanHelp /\ TypedO("num")
    /\ \E f \in OptionFallbacks : Done("orElse", f, OptionOrElse(Machine, cur, f), "num")

OGetOrElse ==
    /\ CanHelp /\ TypedO("num")
    /\ \E f \in Defaults : Observed("getOrElse", f, OptionGetOrElse(Machine, cur, f))

\* The i-th element of a list: the current value, some(i) or none().
OptionElem(m, k, i) ==
    CASE k = "cur" -> Ret(m, cur)
      [] k = "success" -> MkSome(m, i % (MaxVal + 1))
      [] k = "failure" -> MkNone(m)

RECURSIVE OptionList(_, _, _, _)
OptionList(m, kinds, i, out) ==
    IF i > Len(kinds) THEN Ret(m, out)
    ELSE LET e == OptionElem(m, kinds[i], i)
         IN  OptionList(e.m, kinds, i + 1, Append(out, e.v))

OSequence ==
    /\ CanHelp /\ TypedO("num")
    /\ \E kinds \in KindLists :
          LET l == OptionList(Machine, kinds, 1, <<>>)
          IN  Done("sequence", l.v, OptionSequence(l.m, l.v), "list")

OMap2 ==
    /\ CanHelp /\ TypedO("num")
    /\ \E b \in ArgOpt(Machine), f \in Map2Mappers :
          Done("map2", <<b.v>>, OptionMap2(b.m, cur, b.v, f), "num")

OMap3 ==
    /\ CanHelp /\ TypedO("num")
    /\ \E b \in ArgOpt(Machine), f \in Map3Mappers :
          \E c \in ArgOpt3(b.m) :
             Done("map3", <<b.v, c.v>>, OptionMap3(c.m, cur, b.v, c.v, f), "num")

OInit ==
    \/ \E v \in Vals : EStart("some", v, MkSome(Machine0, v), "num")
    \/ \E f \in FnPayloads : EStart("some", f, MkSome(Machine0, f), "fn")
    \/ \E t \in {"num", "fn", "nested"} : EStart("none", 0, MkNone(Machine0), t)
    \/ \E i \in {MkSome(Machine0, 1), MkNone(Machine0)} :
          EStart("some", i.v, MkSome(i.m, i.v), "nested")

ONext ==
    \/ OMap \/ OFlatMap \/ OFilter \/ OAp \/ OZip \/ OFlatten \/ OTap \/ OTapNone
    \/ OOrElse \/ OGetOrElse \/ OSequence \/ OMap2 \/ OMap3

SpecOption == OInit /\ [][ONext]_vars

\* ------------------------------------- the Validation library program
\* The pipeline of SpecValidation extended with the helpers map2, map3 and
\* sequence; the current value is the first argument of map2 / map3 and
\* one element of the list given to sequence.
\* The i-th element of a list: the current value, valid(i) or invalid(e).
ValidationElem(m, k, i) ==
    CASE k = "cur" -> Ret(m, cur)
      [] k = "success" -> MkValid(m, i % (MaxVal + 1))
      [] k = "failure" -> MkInvalid(m, IF i % 2 = 1 THEN "e1" ELSE "e2")

RECURSIVE ValidationList(_, _, _, _)
ValidationList(m, kinds, i, out) ==
    IF i > Len(kinds) THEN Ret(m, out)
    ELSE LET e == ValidationElem(m, kinds[i], i)
         IN  ValidationList(e.m, kinds, i + 1, Append(out, e.v))

VSequence ==
    /\ CanHelp
    /\ \E kinds \in KindLists :
          LET l == ValidationList(Machine, kinds, 1, <<>>)
          IN  Done("sequence", l.v, ValidationSequence(l.m, l.v), "list")

VMap2 ==
    /\ CanHelp /\ TypedV("num")
    /\ \E b \in ArgVal(Machine), f \in Map2Mappers :
          Done("map2", <<b.v>>, ValidationMap2(b.m, cur, b.v, f), "num")

\* The third argument of map3: valid(2) or invalid("e2").
ArgVal3(m) == {MkValid(m, 2)} \cup {MkInvalid(m, "e2")}

VMap3 ==
    /\ CanHelp /\ TypedV("num")
    /\ \E b \in ArgVal(Machine), f \in Map3Mappers :
          \E c \in ArgVal3(b.m) :
             Done("map3", <<b.v, c.v>>, ValidationMap3(c.m, cur, b.v, c.v, f), "num")

VNextLib == (CanHelp /\ VNext) \/ VSequence \/ VMap2 \/ VMap3

\* The first value: the result of a constructor call (or, for an Invalid of
\* two errors, of a zip of two invalid(e)).
VStart(op, arg, r, t) ==
    /\ cur = r.v /\ ty = t /\ start = r.v
    /\ last = [op |-> op, recv |-> NoLast, arg |-> arg, res |-> r.v, calls |-> r.m.log]
    /\ log = r.m.log /\ nid = r.m.nid
    /\ steps = 0 /\ exc = "none"
    /\ promises = <<>> /\ jobs = <<>> /\ runs = <<>> /\ insync = FALSE

VInitLib ==
    \/ \E v \in Vals : VStart("valid", v, MkValid(Machine0, v), "num")
    \/ \E f \in FnPayloads : VStart("valid", f, MkValid(Machine0, f), "fn")
    \/ \E e \in Errs : VStart("invalid", e, MkInvalid(Machine0, e), "num")
    \/ \E a \in {MkInvalid(Machine0, "e2")} :
          \E b \in {MkInvalid(a.m, "e1")} :
             VStart("zip", b.v, ValidationZip(b.m, a.v, b.v), "pair")
    \/ \E e \in {MkRight(Machine0, 1), MkLeft(Machine0, "e1")} :
          VStart("fromEither", e.v, ValidationFromEither(e.m, e.v), "num")
    \/ \E o \in {MkSome(Machine0, 1), MkNone(Machine0)} :
          VStart("fromOption", o.v, ValidationFromOption(o.m, o.v, User("mkErr")), "num")

SpecValidationLib == VInitLib /\ [][VNextLib]_vars

\* ------------------------------------------------ the TaskEither program
\* A program constructs a description (at most MaxBuild derivations from a
\* constructor call), calls run() on it, and the event loop takes over:
\* microtasks run in queue order, and the outside world settles a producer's
\* promise only when the queue is empty.
Nothing == [clo |-> "nothing"]

Built(r, t) ==
    /\ r.ok
    /\ cur' = r.v
    /\ ty' = t
    /\ steps' = steps + 1
    /\ log' = r.m.log
    /\ nid' = r.m.nid
    /\ promises' = r.m.promises
    /\ jobs' = r.m.jobs
    /\ start' = IF steps = 0 THEN r.v ELSE start
    /\ UNCHANGED <<last, exc, runs, insync>>

CanBuild == runs = <<>> /\ exc = "none" /\ steps \in 1 .. MaxBuild
IsTE == ty \in {"num", "fn", "nested", "pair", "list"}

OnThrow == User("onThrow")
ArgTE(m) ==
    {TEtaskEither(m, 2)} \cup {TEtaskLeft(m, "e2")}
        \cup {TEtryCatch(m, User("B"), OnThrow)}

TNew ==
    /\ steps = 0 /\ runs = <<>>
    /\ \/ \E v \in Vals : Built(TEtaskEither(Machine, v), "num")
       \/ \E f \in FnPayloads : Built(TEtaskEither(Machine, f), "fn")
       \/ \E t \in {"num", "fn"} : Built(TEtaskLeft(Machine, "e1"), t)
       \/ \E v \in {1} :
             LET i == TEtaskEither(Machine, v) IN Built(TEtaskEither(i.m, i.v), "nested")
       \/ \E e \in {"e2"} :
             LET i == TEtaskLeft(Machine, e) IN Built(TEtaskEither(i.m, i.v), "nested")
       \/ \E e \in {MkRight(Machine, 1), MkLeft(Machine, "e1")} :
             Built(TEfromEither(e.m, e.v), "num")
       \/ \E n \in {"T"} :
             LET t == CreateTask(Machine, User(n)) IN Built(TEfromTask(t.m, t.v), "num")
       \/ \E n \in {"A", "X"} : Built(TEtryCatch(Machine, User(n), OnThrow), "num")
       \/ Built(TEtryCatch(Machine, User("F"), OnThrow), "fn")

\* The lists all is given: up to MaxAll distinct elements, in any order.
AllElems(m) ==
    {TEtryCatch(m, User(n), OnThrow).v : n \in {"A", "B", "C", "X"}}
        \cup {TEtaskLeft(m, "e1").v} \cup {TEtaskEither(m, 0).v}
AllLists(m) ==
    {l \in UNION {[1 .. n -> AllElems(m)] : n \in 0 .. MaxAll} :
        \A i, j \in DOMAIN l : i # j => l[i] # l[j]}

TAll ==
    /\ steps = 0 /\ runs = <<>>
    /\ \E l \in AllLists(Machine) : Built(TEall(Machine, l), "list")

TMap ==
    /\ CanBuild /\ ty = "num"
    /\ \/ Built(TEMap(Machine, cur, User("inc")), "num")
       \/ Built(TEMap(Machine, cur, User("adder")), "fn")
       \/ Built(TEMap(Machine, cur, User("toTE")), "nested")

TMapLeft ==
    /\ CanBuild /\ IsTE
    /\ Built(TEMapLeft(Machine, cur, User("relabel")), ty)

TAp ==
    /\ CanBuild /\ ty = "fn"
    /\ \E a \in ArgTE(Machine) : Built(TEAp(a.m, cur, a.v), "num")

TZip ==
    /\ CanBuild /\ ty = "num"
    /\ \E a \in ArgTE(Machine) : Built(TEZip(a.m, cur, a.v), "pair")

TFlatten ==
    /\ CanBuild /\ ty = "nested"
    /\ Built(TEFlatten(Machine, cur), "num")

TFlatMap ==
    /\ CanBuild /\ ty = "num"
    /\ \E f \in {User("toTE"), User("toTL"), User("toAsync")} :
          Built(TEFlatMap(Machine, cur, f), "num")

TTap ==
    /\ CanBuild /\ IsTE
    /\ Built(TETap(Machine, cur, User("effect")), ty)

TTapLeft ==
    /\ CanBuild /\ IsTE
    /\ Built(TETapLeft(Machine, cur, User("effect")), ty)

TMatch ==
    /\ CanBuild /\ ty = "num"
    /\ Built(TEMatch(Machine, cur, User("zero"), User("inc")), "task")

TGetOrElse ==
    /\ CanBuild /\ ty = "num"
    /\ Built(TEGetOrElse(Machine, cur, User("zero")), "task")

TOrElse ==
    /\ CanBuild /\ ty = "num"
    /\ \E f \in {User("recover"), User("toTL"), User("toAsync")} :
          Built(TEOrElse(Machine, cur, f), "num")

\* run() on the description.
TRun ==
    /\ steps >= 1 /\ runs = <<>> /\ exc = "none"
    /\ LET r == TERun(Machine, cur)
       IN  /\ runs' = Append(runs, IF r.ok THEN r.v ELSE 0)
           /\ exc' = IF r.ok THEN exc ELSE r.v
           /\ log' = r.m.log
           /\ nid' = r.m.nid
           /\ promises' = r.m.promises
           /\ jobs' = r.m.jobs
    /\ insync' = TRUE
    /\ UNCHANGED <<start, cur, ty, steps, last>>

Install(m) ==
    /\ log' = m.log
    /\ nid' = m.nid
    /\ promises' = m.promises
    /\ jobs' = m.jobs
    /\ insync' = FALSE
    /\ UNCHANGED <<start, cur, ty, steps, last, exc, runs>>

TMicrotask ==
    /\ jobs # <<>>
    /\ Install(RunJob([Machine EXCEPT !.jobs = Tail(jobs)], Head(jobs)))

ResolveValue(src) ==
    CASE src = "A" -> 1
      [] src = "B" -> 2
      [] src = "C" -> 0
      [] src = "T" -> 1
      [] src = "F" -> User("inc")
RejectValue(src) ==
    CASE src = "A" -> "errA"
      [] src = "B" -> "errB"
      [] src = "C" -> "errC"
      [] src = "F" -> "errF"

Awaited(p) == promises[p].state = "pending" /\ promises[p].src \in Producers

\* The outside world's settlements are logged as well.
Settled(m, p) == [m EXCEPT !.log = Append(@, [fn |-> "settle", arg |-> p])]

\* The outside world fulfils a producer's promise,
TFulfil ==
    /\ jobs = <<>>
    /\ \E p \in DOMAIN promises :
          /\ Awaited(p)
          /\ Install(SettlePromise(Settled(Machine, p), p, "fulfilled",
                                    ResolveValue(promises[p].src)))

\* or rejects it; a Task's promise never rejects.
TReject ==
    /\ jobs = <<>>
    /\ \E p \in DOMAIN promises :
          /\ Awaited(p)
          /\ promises[p].src # "T"
          /\ Install(SettlePromise(Settled(Machine, p), p, "rejected",
                                    RejectValue(promises[p].src)))

TInit ==
    /\ cur = Nothing
    /\ start = Nothing
    /\ ty = "none"
    /\ nid = 0
    /\ log = <<>>
    /\ steps = 0
    /\ last = NoLast
    /\ exc = "none"
    /\ promises = <<>>
    /\ jobs = <<>>
    /\ runs = <<>>
    /\ insync = FALSE

TNext ==
    \/ TNew \/ TAll \/ TMap \/ TMapLeft \/ TAp \/ TZip \/ TFlatten \/ TFlatMap
    \/ TTap \/ TTapLeft \/ TMatch \/ TGetOrElse \/ TOrElse
    \/ TRun \/ TMicrotask \/ TFulfil \/ TReject

SpecTE == TInit /\ [][TNext]_vars

\* ------------------------------------------- running a description again
\* A description is built, then run() is called on it up to MaxRuns times,
\* at any moment: right after the previous call, between microtasks, or
\* after earlier runs have settled.
RPipelines ==
    LET a == TEtryCatch(Machine0, User("A"), OnThrow)
        f == TEtaskEither(Machine0, User("inc"))
        b == TEtryCatch(f.m, User("B"), OnThrow)
        v == TEtaskEither(Machine0, 1)
    IN  {a} \cup {TEtryCatch(Machine0, User("X"), OnThrow)}
            \cup {TEMap(a.m, a.v, User("inc"))}
            \cup {TEFlatMap(a.m, a.v, User("toAsync"))}
            \cup {TEAp(b.m, f.v, b.v)}
            \cup {TEMap(v.m, v.v, User("inc"))}

RInit ==
    /\ \E r \in RPipelines :
          /\ cur = r.v /\ start = r.v
          /\ nid = r.m.nid /\ log = r.m.log
          /\ promises = r.m.promises /\ jobs = r.m.jobs
    /\ ty = "num" /\ steps = 1
    /\ last = NoLast /\ exc = "none"
    /\ runs = <<>> /\ insync = FALSE

RRun ==
    /\ Len(runs) < MaxRuns
    /\ LET r == TERun(Machine, cur)
       IN  /\ runs' = Append(runs, IF r.ok THEN r.v ELSE 0)
           /\ exc' = IF r.ok THEN exc ELSE r.v
           /\ log' = r.m.log
           /\ nid' = r.m.nid
           /\ promises' = r.m.promises
           /\ jobs' = r.m.jobs
    /\ insync' = TRUE
    /\ UNCHANGED <<start, cur, ty, steps, last>>

RNext == RRun \/ TMicrotask \/ TFulfil \/ TReject

SpecTERuns == RInit /\ [][RNext]_vars

\* -------------------------------------------------------- the monad laws
Families == {"Option", "Either", "TaskEither"}

MonadOf(fam, m, v) ==
    CASE fam = "Either" -> MkRight(m, v)
      [] fam = "Option" -> MkSome(m, v)
      [] fam = "TaskEither" -> TEtaskEither(m, v)

\* The family's failure variant.
MonadFail(fam, m, e) ==
    CASE fam = "Either" -> MkLeft(m, e)
      [] fam = "Option" -> MkNone(m)
      [] fam = "TaskEither" -> TEtaskLeft(m, e)

\* of, passed as a mapper.
OfMapper(fam) ==
    CASE fam = "Either" -> User("toRight")
      [] fam = "Option" -> User("some")
      [] fam = "TaskEither" -> User("taskEither")

\* Functions that return the success variant, the failure variant, or one
\* or the other depending on the argument.
MonadMappers(fam) ==
    CASE fam = "Either" -> EitherMappers
      [] fam = "Option" -> OptionMappers \cup {User("decOrNone")}
      [] fam = "TaskEither" -> {User("toTE"), User("toTL"), User("decOrTL")}

\* The microtask queue run until it is empty.
RECURSIVE Drain(_)
Drain(m) ==
    IF m.jobs = <<>> THEN m
    ELSE Drain(RunJob([m EXCEPT !.jobs = Tail(@)], Head(m.jobs)))

OptionAsTag(option) ==
    IF IsSome(option) THEN [tag |-> "SOME", some |-> option.some] ELSE [tag |-> "NONE"]

\* toResult() of what a run's promise settled to.
Resolved(p) ==
    IF p.state = "fulfilled" THEN EitherToResult(p.value)
    ELSE [state |-> p.state, value |-> p.value]

\* await r, r being the outcome of te.run(),
Await(r) ==
    IF r.ok THEN Resolved(Drain(r.m).promises[r.v]) ELSE [thrown |-> r.v]

\* that is (await te.run()).toResult().
AwaitRun(m, te) == Await(TERun(m, te))

\* What the monad law suites compare; a thrown exception is observed as such.
AsTag(fam, c) ==
    IF ~c.ok THEN [thrown |-> c.v]
    ELSE CASE fam = "Either" -> EitherToResult(c.v)
           [] fam = "Option" -> OptionAsTag(c.v)
           [] fam = "TaskEither" -> AwaitRun(c.m, c.v)

\* m of the laws: of(a) or the failure variant.
MonadM(in) ==
    IF in.m = "success" THEN MonadOf(in.fam, Machine0, in.a)
    ELSE MonadFail(in.fam, Machine0, in.e)

\* One law: the tags of its two sides are taken and kept for comparison.
Law(name, lhs, rhs) ==
    /\ last = NoLast
    /\ last' = [op |-> name, fam |-> start.fam, lhs |-> lhs, rhs |-> rhs]
    /\ UNCHANGED <<start, cur, ty, steps, log, nid, exc, promises, jobs, runs, insync>>

\* c.flatMap(mapper), c being the outcome of the expression before it.
FlatMapOn(fam, c, mapper) ==
    IF c.ok THEN MonadFlatMap(fam, c.m, c.v, mapper) ELSE c

\* of(a).flatMap(f) against f(a)
LeftIdentity ==
    Law("leftIdentity",
        AsTag(start.fam, FlatMapOn(start.fam, MonadOf(start.fam, Machine0, start.a), start.f)),
        AsTag(start.fam, Call(Machine0, start.f, start.a)))

\* m.flatMap(of) against m
RightIdentity ==
    Law("rightIdentity",
        AsTag(start.fam, FlatMapOn(start.fam, MonadM(start), OfMapper(start.fam))),
        AsTag(start.fam, MonadM(start)))

\* m.flatMap(f).flatMap(g) against m.flatMap(x => f(x).flatMap(g))
Associativity ==
    Law("associativity",
        AsTag(start.fam,
              FlatMapOn(start.fam, FlatMapOn(start.fam, MonadM(start), start.f), start.g)),
        AsTag(start.fam,
              FlatMapOn(start.fam, MonadM(start), AndThen(start.fam, start.f, start.g))))

MInit ==
    /\ \E fam \in Families, a \in Vals, k \in {"success", "failure"}, e \in Errs :
       \E f \in MonadMappers(fam), g \in MonadMappers(fam) :
          start = [fam |-> fam, a |-> a, m |-> k, e |-> e, f |-> f, g |-> g]
    /\ cur = Nothing /\ ty = "num" /\ steps = 0 /\ last = NoLast
    /\ log = <<>> /\ nid = 0 /\ exc = "none"
    /\ promises = <<>> /\ jobs = <<>> /\ runs = <<>> /\ insync = FALSE

MNext == LeftIdentity \/ RightIdentity \/ Associativity

SpecMonadLaws == MInit /\ [][MNext]_vars

\* -------------------------------------------------- the applicative laws
ApFamilies == {"Option", "Either", "Validation"}

ApOf(fam, m, v) ==
    CASE fam = "Either" -> MkRight(m, v)
      [] fam = "Option" -> MkSome(m, v)
      [] fam = "Validation" -> MkValid(m, v)

ApFail(fam, m, e) ==
    CASE fam = "Either" -> MkLeft(m, e)
      [] fam = "Option" -> MkNone(m)
      [] fam = "Validation" -> MkInvalid(m, e)

Ap(fam, m, t, arg) ==
    CASE fam = "Either" -> EitherAp(m, t, arg)
      [] fam = "Option" -> OptionAp(m, t, arg)
      [] fam = "Validation" -> ValidationAp(m, t, arg)

\* An operand: of(v), or the failure variant with its own error.
Operand(fam, m, kind, v, e) ==
    IF kind = "success" THEN ApOf(fam, m, v) ELSE ApFail(fam, m, e)

\* The operands are constructed first, u, then v, then w.
OperandU == Operand(start.fam, Machine0, start.ku, start.fu, "eu")
OperandV == Operand(start.fam, OperandU.m, start.kv, start.fv, "ev")
OperandW == Operand(start.fam, OperandV.m, start.kw, start.x, "ew")

\* What the applicative law suites compare.
ApAsTag(fam, c) ==
    IF ~c.ok THEN [thrown |-> c.v]
    ELSE CASE fam = "Either" -> EitherToResult(c.v)
           [] fam = "Option" -> OptionAsTag(c.v)
           [] fam = "Validation" -> ValidationToResult(c.v)

\* t.ap(arg), t being the outcome of the expression before it,
ApOn(fam, t, arg) ==
    IF t.ok THEN Ap(fam, t.m, t.v, arg) ELSE t

\* and t.ap(a), a being that outcome.
ApTo(fam, t, a) ==
    IF a.ok THEN Ap(fam, a.m, t, a.v) ELSE a

\* of(id).ap(a) against a
Identity ==
    Law("identity",
        ApAsTag(start.fam,
                ApOn(start.fam, ApOf(start.fam, OperandW.m, [clo |-> "id"]), OperandW.v)),
        ApAsTag(start.fam, OperandW))

\* of(f).ap(of(x)) against of(f(x))
Homomorphism ==
    Law("homomorphism",
        ApAsTag(start.fam,
                ApOn(start.fam,
                     ApOf(start.fam, ApOf(start.fam, Machine0, start.x).m, start.fu),
                     ApOf(start.fam, Machine0, start.x).v)),
        ApAsTag(start.fam,
                ApOf(start.fam, Call(Machine0, start.fu, start.x).m,
                     Call(Machine0, start.fu, start.x).v)))

\* a.ap(of(x)) against of(f => f(x)).ap(a)
Interchange ==
    Law("interchange",
        ApAsTag(start.fam,
                ApTo(start.fam, OperandU.v, ApOf(start.fam, OperandU.m, start.x))),
        ApAsTag(start.fam,
                ApOn(start.fam,
                     ApOf(start.fam, OperandU.m, [clo |-> "applyArg", arg |-> start.x]),
                     OperandU.v)))

\* of(compose).ap(u).ap(v).ap(w) against u.ap(v.ap(w))
Composition ==
    Law("composition",
        ApAsTag(start.fam,
                ApOn(start.fam,
                     ApOn(start.fam,
                          ApOn(start.fam,
                               ApOf(start.fam, OperandW.m, [clo |-> "compose"]),
                               OperandU.v),
                          OperandV.v),
                     OperandW.v)),
        ApAsTag(start.fam,
                ApTo(start.fam, OperandU.v,
                     Ap(start.fam, OperandW.m, OperandV.v, OperandW.v))))

Kinds == {"success", "failure"}

AInit ==
    /\ \E fam \in ApFamilies, x \in Vals, fu \in FnPayloads, fv \in FnPayloads :
       \E ku \in Kinds, kv \in Kinds, kw \in Kinds :
          start = [fam |-> fam, x |-> x, fu |-> fu, fv |-> fv,
                   ku |-> ku, kv |-> kv, kw |-> kw]
    /\ cur = Nothing /\ ty = "num" /\ steps = 0 /\ last = NoLast
    /\ log = <<>> /\ nid = 0 /\ exc = "none"
    /\ promises = <<>> /\ jobs = <<>> /\ runs = <<>> /\ insync = FALSE

ANext == Identity \/ Homomorphism \/ Interchange \/ Composition

SpecApplicativeLaws == AInit /\ [][ANext]_vars

\* ------------------------------------------------------ the functor laws
FunctorFamilies == {"Option", "Either", "Validation", "TaskEither"}

FunctorOf(fam, m, v) ==
    CASE fam = "Either" -> MkRight(m, v)
      [] fam = "Option" -> MkSome(m, v)
      [] fam = "Validation" -> MkValid(m, v)
      [] fam = "TaskEither" -> TEtaskEither(m, v)

FunctorFail(fam, m, e) ==
    CASE fam = "Either" -> MkLeft(m, e)
      [] fam = "Option" -> MkNone(m)
      [] fam = "Validation" -> MkInvalid(m, e)
      [] fam = "TaskEither" -> TEtaskLeft(m, e)

FunctorMap(fam, m, c, mapper) ==
    CASE fam = "Either" -> EitherMap(m, c, mapper)
      [] fam = "Option" -> OptionMap(m, c, mapper)
      [] fam = "Validation" -> ValidationMap(m, c, mapper)
      [] fam = "TaskEither" -> TEMap(m, c, mapper)

\* c.map(mapper), c being the outcome of the expression before it.
MapOn(fam, c, mapper) ==
    IF c.ok THEN FunctorMap(fam, c.m, c.v, mapper) ELSE c

\* What the functor law suites compare.
FunctorAsTag(fam, c) ==
    IF ~c.ok THEN [thrown |-> c.v]
    ELSE CASE fam = "Either" -> EitherToResult(c.v)
           [] fam = "Option" -> OptionAsTag(c.v)
           [] fam = "Validation" -> ValidationToResult(c.v)
           [] fam = "TaskEither" -> AwaitRun(c.m, c.v)

\* m of the laws: of(a) or the failure variant.
FunctorM ==
    IF start.m = "success" THEN FunctorOf(start.fam, Machine0, start.a)
    ELSE FunctorFail(start.fam, Machine0, start.e)

\* m.map(x => x) against m
FunctorIdentity ==
    Law("functorIdentity",
        FunctorAsTag(start.fam, MapOn(start.fam, FunctorM, [clo |-> "id"])),
        FunctorAsTag(start.fam, FunctorM))

\* m.map(f).map(g) against m.map(x => g(f(x)))
FunctorComposition ==
    Law("functorComposition",
        FunctorAsTag(start.fam, MapOn(start.fam, MapOn(start.fam, FunctorM, start.f), start.g)),
        FunctorAsTag(start.fam,
                     MapOn(start.fam, FunctorM,
                           [clo |-> "compose2", f |-> start.g, g |-> start.f])))

FInit ==
    /\ \E fam \in FunctorFamilies, a \in Vals, k \in Kinds, e \in Errs :
       \E f \in NumMappers, g \in NumMappers :
          start = [fam |-> fam, a |-> a, m |-> k, e |-> e, f |-> f, g |-> g]
    /\ cur = Nothing /\ ty = "num" /\ steps = 0 /\ last = NoLast
    /\ log = <<>> /\ nid = 0 /\ exc = "none"
    /\ promises = <<>> /\ jobs = <<>> /\ runs = <<>> /\ insync = FALSE

FNext == FunctorIdentity \/ FunctorComposition

SpecFunctorLaws == FInit /\ [][FNext]_vars

\* ------------------------------------------- a caller's function throws
\* Every combinator that takes a function is given one that throws when it
\* is invoked; an exception that leaves a call ends the program.
Boom == User("boom")

EitherWith(op, m, either) ==
    CASE op = "map" -> EitherMap(m, either, Boom)
      [] op = "flatMap" -> EitherFlatMap(m, either, Boom)
      [] op = "filterOrElse" -> EitherFilterOrElse(m, either, Boom, User("mkErr"))
      [] op = "filterOrElse.onLeft" -> EitherFilterOrElse(m, either, User("isZero"), Boom)
      [] op = "tap" -> EitherTap(m, either, Boom)

ValidationWith(op, m, validation) ==
    CASE op = "map" -> ValidationMap(m, validation, Boom)
      [] op = "filterOrElse" -> ValidationFilterOrElse(m, validation, Boom, User("mkErr"))
      [] op = "filterOrElse.onInvalid" ->
            ValidationFilterOrElse(m, validation, User("isZero"), Boom)
      [] op = "tap" -> ValidationTap(m, validation, Boom)
      [] op = "tapInvalid" -> ValidationTapInvalid(m, validation, Boom)

OptionWith(op, m, option) ==
    CASE op = "map" -> OptionMap(m, option, Boom)
      [] op = "flatMap" -> OptionFlatMap(m, option, Boom)
      [] op = "filter" -> OptionFilter(m, option, Boom)
      [] op = "tap" -> OptionTap(m, option, Boom)
      [] op = "tapNone" -> OptionTapNone(m, option, Boom)
      [] op = "orElse" -> OptionOrElse(m, option, Boom)

TaskEitherWith(op, m, te) ==
    CASE op = "map" -> TEMap(m, te, Boom)
      [] op = "mapLeft" -> TEMapLeft(m, te, Boom)
      [] op = "flatMap" -> TEFlatMap(m, te, Boom)
      [] op = "tap" -> TETap(m, te, Boom)
      [] op = "tapLeft" -> TETapLeft(m, te, Boom)
      [] op = "orElse" -> TEOrElse(m, te, Boom)

EitherThrowOps == {"map", "flatMap", "filterOrElse", "filterOrElse.onLeft", "tap"}
ValidationThrowOps ==
    {"map", "filterOrElse", "filterOrElse.onInvalid", "tap", "tapInvalid"}
OptionThrowOps == {"map", "flatMap", "filter", "tap", "tapNone", "orElse"}
TaskEitherThrowOps == {"map", "mapLeft", "flatMap", "tap", "tapLeft", "orElse"}

CanThrow(fam) == ty = fam /\ exc = "none" /\ steps < MaxLib

XEither ==
    /\ CanThrow("Either")
    /\ \E op \in EitherThrowOps : Done(op, Boom, EitherWith(op, Machine, cur), ty)

XValidation ==
    /\ CanThrow("Validation")
    /\ \E op \in ValidationThrowOps : Done(op, Boom, ValidationWith(op, Machine, cur), ty)

XOption ==
    /\ CanThrow("Option")
    /\ \E op \in OptionThrowOps : Done(op, Boom, OptionWith(op, Machine, cur), ty)

\* The description is built on taskEither(v), taskLeft(e) or tryCatch(A).
XTaskEither ==
    /\ ty = "TaskEither" /\ steps = 0
    /\ \E op \in TaskEitherThrowOps : Built(TaskEitherWith(op, Machine, cur), ty)

XRun == ty = "TaskEither" /\ TRun

XStart(r, fam) ==
    /\ cur = r.v /\ start = r.v /\ ty = fam
    /\ nid = r.m.nid /\ log = r.m.log
    /\ promises = r.m.promises /\ jobs = r.m.jobs
    /\ steps = 0 /\ last = NoLast /\ exc = "none"
    /\ runs = <<>> /\ insync = FALSE

XInit ==
    \/ \E v \in Vals : \/ XStart(MkRight(Machine0, v), "Either")
                       \/ XStart(MkValid(Machine0, v), "Validation")
                       \/ XStart(MkSome(Machine0, v), "Option")
                       \/ XStart(TEtaskEither(Machine0, v), "TaskEither")
    \/ \E e \in Errs : \/ XStart(MkLeft(Machine0, e), "Either")
                       \/ XStart(MkInvalid(Machine0, e), "Validation")
                       \/ XStart(TEtaskLeft(Machine0, e), "TaskEither")
    \/ XStart(MkNone(Machine0), "Option")
    \/ XStart(TEtryCatch(Machine0, User("A"), OnThrow), "TaskEither")

XNext ==
    \/ XEither \/ XValidation \/ XOption \/ XTaskEither
    \/ XRun \/ TMicrotask \/ TFulfil \/ TReject

SpecThrows == XInit /\ [][XNext]_vars

\* ------------------------------------------------ the same instance
\* A value of a synchronous family and at most MaxLib calls of the methods
\* that may answer with their receiver; ty is the family.
CanCall(fam) == ty = fam /\ exc = "none" /\ steps < MaxLib

IEither ==
    /\ CanCall("Either")
    /\ \/ \E f \in NumMappers : Done("map", f, EitherMap(Machine, cur, f), ty)
       \/ \E f \in EitherMappers : Done("flatMap", f, EitherFlatMap(Machine, cur, f), ty)
       \/ \E p \in Predicates, o \in OnLefts :
             Done("filterOrElse", p, EitherFilterOrElse(Machine, cur, p, o), ty)
       \/ \E f \in EitherFallbacks : Done("orElse", f, EitherOrElse(Machine, cur, f), ty)
       \/ \E f \in Effects : Done("tap", f, EitherTap(Machine, cur, f), ty)

IValidation ==
    /\ CanCall("Validation")
    /\ \/ \E f \in NumMappers : Done("map", f, ValidationMap(Machine, cur, f), ty)
       \/ \E p \in Predicates, o \in OnLefts :
             Done("filterOrElse", p, ValidationFilterOrElse(Machine, cur, p, o), ty)
       \/ \E f \in Effects : Done("tap", f, ValidationTap(Machine, cur, f), ty)
       \/ \E f \in Effects :
             Done("tapInvalid", f, ValidationTapInvalid(Machine, cur, f), ty)

IOption ==
    /\ CanCall("Option")
    /\ \/ \E f \in NumMappers : Done("map", f, OptionMap(Machine, cur, f), ty)
       \/ \E f \in OptionMappers : Done("flatMap", f, OptionFlatMap(Machine, cur, f), ty)
       \/ \E p \in Predicates : Done("filter", p, OptionFilter(Machine, cur, p), ty)
       \/ \E f \in OptionFallbacks : Done("orElse", f, OptionOrElse(Machine, cur, f), ty)
       \/ \E f \in Effects : Done("tap", f, OptionTap(Machine, cur, f), ty)
       \/ \E f \in NoneEffects : Done("tapNone", f, OptionTapNone(Machine, cur, f), ty)

IInit ==
    \/ \E v \in Vals : \/ XStart(MkRight(Machine0, v), "Either")
                       \/ XStart(MkValid(Machine0, v), "Validation")
                       \/ XStart(MkSome(Machine0, v), "Option")
    \/ \E e \in Errs : \/ XStart(MkLeft(Machine0, e), "Either")
                       \/ XStart(MkInvalid(Machine0, e), "Validation")
    \/ XStart(MkNone(Machine0), "Option")

INext == IEither \/ IValidation \/ IOption

SpecInstances == IInit /\ [][INext]_vars

\* ------------------------------------------- Validation, by reference
\* The Validations of a program as JavaScript holds them: every Validation
\* object closes over its value object, { valid: v } or { invalid: array },
\* and an array is a mutable object with an identity. The heap
\* h = [objs, arrays, made] lists the value objects and the arrays in order
\* of creation; made[i] is what objs[i] showed when it was created.
Heap0 == [objs |-> <<>>, arrays |-> <<>>, made |-> <<>>]

Num(n) == [t |-> "num", n |-> n]
Fn(name) == [t |-> "fn", name |-> name]

RefIsValid(h, i) == "valid" \in DOMAIN h.objs[i]

\* toResult(), arrays read as they are now.
RefToResult(h, i) ==
    IF RefIsValid(h, i)
    THEN [ok |-> TRUE,
          value |-> IF h.objs[i].valid.t = "list"
                    THEN [t |-> "list", elems |-> h.arrays[h.objs[i].valid.arr]]
                    ELSE h.objs[i].valid]
    ELSE [ok |-> FALSE, errors |-> h.arrays[h.objs[i].invalid]]

RefCreateValidation(h, value) ==
    LET h1 == [h EXCEPT !.objs = Append(@, value)]
        i == Len(h1.objs)
    IN  [h |-> [h1 EXCEPT !.made = Append(@, RefToResult(h1, i))], v |-> i]

\* [...elems]: a new array.
RefNewArray(h, elems) ==
    [h |-> [h EXCEPT !.arrays = Append(@, elems)], v |-> Len(h.arrays) + 1]

\* array.push(...elems): the array itself changes.
RefPush(h, array, elems) == [h EXCEPT !.arrays[array] = @ \o elems]

RefValid(h, v) == RefCreateValidation(h, [valid |-> v])

RefInvalid(h, e) ==
    LET a == RefNewArray(h, <<e>>)
    IN  RefCreateValidation(a.h, [invalid |-> a.v])

\* The functions of the program, applied.
RefApply(f, x) ==
    CASE f.name = "inc" -> Num((x.n + 1) % (MaxVal + 1))
      [] f.name = "tupler" -> [t |-> "fn", name |-> "tupler1", a |-> x]
      [] f.name = "tupler1" -> [t |-> "pair", a |-> f.a, b |-> x]
      [] f.name = "curry2" -> [t |-> "fn", name |-> "curry2a", a |-> x]
      [] f.name = "curry2a" -> Num((f.a.n - x.n) % (MaxVal + 1))
      [] f.name = "curry3" -> [t |-> "fn", name |-> "curry3a", a |-> x]
      [] f.name = "curry3a" -> [t |-> "fn", name |-> "curry3b", a |-> f.a, b |-> x]
      [] f.name = "curry3b" -> Num((f.a.n - f.b.n - x.n) % (MaxVal + 1))

RefMap(h, validation, mapper) ==
    IF RefIsValid(h, validation)
    THEN RefCreateValidation(h, [valid |-> RefApply(mapper, h.objs[validation].valid)])
    ELSE [h |-> h, v |-> validation]

RefFilterOrElse(h, validation, e) ==
    IF RefIsValid(h, validation) /\ h.objs[validation].valid.n # 0
    THEN RefInvalid(h, e)
    ELSE [h |-> h, v |-> validation]

\* ap whose two-Invalid branch pushes the argument's errors onto the
\* receiver's array.
RefApPush(h, this, arg) ==
    IF ~RefIsValid(h, this) /\ ~RefIsValid(h, arg)
    THEN RefCreateValidation(
            RefPush(h, h.objs[this].invalid, h.arrays[h.objs[arg].invalid]),
            [invalid |-> h.objs[this].invalid])
    ELSE IF ~RefIsValid(h, this)
    THEN RefCreateValidation(h, [invalid |-> h.objs[this].invalid])
    ELSE IF ~RefIsValid(h, arg)
    THEN RefCreateValidation(h, [invalid |-> h.objs[arg].invalid])
    ELSE RefCreateValidation(
            h, [valid |-> RefApply(h.objs[this].valid, h.objs[arg].valid)])

RefAp(h, this, arg) ==
    IF ~RefIsValid(h, this) /\ ~RefIsValid(h, arg)
    THEN LET a == RefNewArray(h, h.arrays[h.objs[this].invalid]
                                    \o h.arrays[h.objs[arg].invalid])
         IN  RefCreateValidation(a.h, [invalid |-> a.v])
    ELSE IF ~RefIsValid(h, this)
    THEN RefCreateValidation(h, [invalid |-> h.objs[this].invalid])
    ELSE IF ~RefIsValid(h, arg)
    THEN RefCreateValidation(h, [invalid |-> h.objs[arg].invalid])
    ELSE RefCreateValidation(
            h, [valid |-> RefApply(h.objs[this].valid, h.objs[arg].valid)])

\* r.ap(arg), r being the outcome of the call before it.
RefApOn(r, arg) == RefAp(r.h, r.v, arg)

RefZip(h, validation, valA) == RefApOn(RefMap(h, validation, Fn("tupler")), valA)

RefMap2(h, valA, valB) == RefApOn(RefMap(h, valA, Fn("curry2")), valB)

RefMap3(h, valA, valB, valC) ==
    RefApOn(RefApOn(RefMap(h, valA, Fn("curry3")), valB), valC)

\* The loop of sequence: errors and values are the two local arrays.
RECURSIVE RefSequenceLoop(_, _, _, _, _)
RefSequenceLoop(h, validations, i, errors, values) ==
    IF i > Len(validations) THEN h
    ELSE IF RefIsValid(h, validations[i])
    THEN RefSequenceLoop(RefPush(h, values, <<h.objs[validations[i]].valid>>),
                         validations, i + 1, errors, values)
    ELSE RefSequenceLoop(RefPush(h, errors, h.arrays[h.objs[validations[i]].invalid]),
                         validations, i + 1, errors, values)

RefSequenceFrom(h, validations, errors, values) ==
    IF h.arrays[errors] # <<>>
    THEN RefCreateValidation(h, [invalid |-> errors])
    ELSE RefCreateValidation(h, [valid |-> [t |-> "list", arr |-> values]])

RefSequence(h, validations) ==
    LET errors == Len(h.arrays) + 1
        values == Len(h.arrays) + 2
        h0 == RefNewArray(RefNewArray(h, <<>>).h, <<>>).h
    IN  RefSequenceFrom(RefSequenceLoop(h0, validations, 1, errors, values),
                        validations, errors, values)

\* The program: some constructor calls, then combinator and helper calls on
\* the values made so far.
\* start holds the values the caller has a reference to: the ones it
\* constructed and the ones its calls returned.
Heap == cur
Made == start
HasType(i, t) == ~RefIsValid(Heap, i) \/ Heap.objs[i].valid.t = t
Nums == {i \in Made : HasType(i, "num")}
Fns == {i \in Made : HasType(i, "fn") /\ (RefIsValid(Heap, i) => Heap.objs[i].valid.name = "inc")}

\* Every Invalid is constructed with an error of its own.
Constructed(m) ==
    {RefValid(m, Num(0)), RefValid(m, Fn("inc")), RefInvalid(m, Len(m.objs) + 1)}

\* The lists handed to sequence: any of the values, in order of creation.
RefLists ==
    {l \in UNION {[1 .. n -> Nums] : n \in 0 .. 3} :
        \A i, j \in DOMAIN l : i < j => l[i] < l[j]}

HDone(op, arg, r) ==
    /\ steps < MaxCalls
    /\ cur' = r.h
    /\ start' = start \cup {r.v}
    /\ steps' = steps + 1
    /\ last' = [op |-> op, arg |-> arg, res |-> r.v]
    /\ UNCHANGED <<ty, log, nid, exc, promises, jobs, runs, insync>>

HNew ==
    /\ steps = 0 /\ Len(cur.objs) < MaxMade
    /\ \E r \in Constructed(Heap) : cur' = r.h /\ start' = start \cup {r.v}
    /\ UNCHANGED <<ty, steps, last, log, nid, exc, promises, jobs, runs, insync>>

HMap == \E i \in Nums : HDone("map", <<i>>, RefMap(Heap, i, Fn("inc")))
HFilterOrElse == \E i \in Nums : HDone("filterOrElse", <<i>>, RefFilterOrElse(Heap, i, 0))
HAp == \E f \in Fns, a \in Nums : HDone("ap", <<f, a>>, RefAp(Heap, f, a))
HZip ==
    \E a \in Nums, b \in Nums : a <= b /\ HDone("zip", <<a, b>>, RefZip(Heap, a, b))
HMap2 ==
    \E a \in Nums, b \in Nums : a <= b /\ HDone("map2", <<a, b>>, RefMap2(Heap, a, b))
HMap3 ==
    \E a \in Nums, b \in Nums, c \in Nums :
        a < b /\ b < c /\ HDone("map3", <<a, b, c>>, RefMap3(Heap, a, b, c))
HSequence == \E l \in RefLists : HDone("sequence", l, RefSequence(Heap, l))

HInit ==
    /\ \E r \in Constructed(Heap0) : cur = r.h /\ start = {r.v}
    /\ ty = "heap" /\ steps = 0 /\ last = NoLast
    /\ log = <<>> /\ nid = 0 /\ exc = "none"
    /\ promises = <<>> /\ jobs = <<>> /\ runs = <<>> /\ insync = FALSE

HNext == HNew \/ HMap \/ HFilterOrElse \/ HAp \/ HZip \/ HMap2 \/ HMap3 \/ HSequence

SpecRefs == HInit /\ [][HNext]_vars

\* ================================================================ claims
\* What calling the caller's function fn on v returns: fn(v).
Applied(fn, v) == Call(Machine0, fn, v).v
Errors(x) == IF IsValid(x) THEN <<>> ELSE x.invalid

\* C1: Validation f.ap(a) is Valid(fn(v)) exactly when f is Valid(fn) and a is
\* Valid(v), fn being invoked once; otherwise it is Invalid carrying f's
\* errors followed by a's errors, and fn is not invoked.
C1_ValidationAp ==
    last.op = "ap" =>
        LET f == last.recv
            a == last.arg
            r == last.res
        IN  IF IsValid(f) /\ IsValid(a)
            THEN /\ IsValid(r)
                 /\ r.valid = Applied(f.valid, a.valid)
                 /\ Len(last.calls) = 1
            ELSE /\ ~IsValid(r)
                 /\ r.invalid = Errors(f) \o Errors(a)
                 /\ last.calls = <<>>

\* Both operands Invalid, the receiver with two accumulated errors.
C1_Witness ==
    /\ last.op = "ap"
    /\ ~IsValid(last.recv) /\ ~IsValid(last.arg)
    /\ Len(last.recv.invalid) = 2
    /\ last.recv.invalid[1] # last.arg.invalid[1]
    /\ Len(last.res.invalid) = 3

\* C2: Either ap: a Left receiver wins over everything, a Left argument wins
\* over a Right receiver, Right(fn).ap(Right(v)) is Right(fn(v)); fn is
\* invoked only in the last case.
C2_EitherAp ==
    last.op = "ap" =>
        LET f == last.recv
            a == last.arg
            r == last.res
        IN  IF IsLeft(f)
            THEN IsLeft(r) /\ r.left = f.left /\ last.calls = <<>>
            ELSE IF IsLeft(a)
            THEN IsLeft(r) /\ r.left = a.left /\ last.calls = <<>>
            ELSE /\ ~IsLeft(r)
                 /\ r.right = Applied(f.right, a.right)
                 /\ Len(last.calls) = 1

\* Left(e1).ap(Left(e2)) with e1 # e2.
C2_Witness ==
    /\ last.op = "ap"
    /\ IsLeft(last.recv) /\ IsLeft(last.arg)
    /\ last.recv.left # last.arg.left

\* C3: from Left(e), every chain of map, flatMap, ap, zip, flatten,
\* filterOrElse and tap still yields Left(e), and no caller-supplied function
\* has been invoked.
C3_EitherShortCircuit ==
    IsLeft(start) => IsLeft(cur) /\ cur.left = start.left /\ log = <<>> /\ exc = "none"

\* A full chain from a Left whose last call was a zip with a Left argument
\* carrying another error.
C3_Witness ==
    /\ IsLeft(start)
    /\ steps = MaxChain
    /\ last.op = "zip"
    /\ IsLeft(last.arg) /\ last.arg.left # start.left

\* ------------------------------------------------- TaskEither claims
Invoked(n) == \E i \in DOMAIN log : log[i].fn = n
CallsOf(n) == {i \in DOMAIN log : log[i].fn = n}

\* The caller's thunks a description calls synchronously when it is run.
RECURSIVE SyncProducers(_)
SyncProducers(te) ==
    CASE te.clo = "thunkTryCatch" -> {te.thunk.name}
      [] te.clo = "thunkFromTask" -> {te.t.name}
      [] te.clo \in {"thunkFlatMap", "thunkMapLeft", "thunkTap", "thunkTapLeft",
                     "thunkOrElse", "thunkMatch", "thunkGetOrElse"} ->
            SyncProducers(te.thunk)
      [] te.clo = "thunkAp" -> SyncProducers(te.this) \cup SyncProducers(te.arg)
      [] te.clo = "thunkAll" ->
            UNION {SyncProducers(te.taskEithers[i]) : i \in DOMAIN te.taskEithers}
      [] OTHER -> {}

\* Whether a description holds the caller's function named n.
RECURSIVE Mentions(_, _)
Mentions(te, n) ==
    CASE te.clo = "user" -> te.name = n
      [] te.clo = "teMapInner" -> Mentions(te.mapper, n)
      [] te.clo = "thunkTryCatch" -> te.thunk.name = n \/ te.onThrow.name = n
      [] te.clo = "thunkFromTask" -> te.t.name = n
      [] te.clo \in {"thunkFlatMap", "thunkMapLeft"} ->
            Mentions(te.thunk, n) \/ Mentions(te.mapper, n)
      [] te.clo \in {"thunkTap", "thunkTapLeft"} ->
            Mentions(te.thunk, n) \/ Mentions(te.sideEffect, n)
      [] te.clo \in {"thunkOrElse", "thunkGetOrElse"} ->
            Mentions(te.thunk, n) \/ Mentions(te.fallback, n)
      [] te.clo = "thunkMatch" ->
            Mentions(te.thunk, n) \/ Mentions(te.onLeft, n) \/ Mentions(te.onRight, n)
      [] te.clo = "thunkAp" -> Mentions(te.this, n) \/ Mentions(te.arg, n)
      [] te.clo = "thunkAll" ->
            \E i \in DOMAIN te.taskEithers : Mentions(te.taskEithers[i], n)
      [] OTHER -> FALSE

Ran == runs # <<>>
RunP == runs[1]
Fulfilled(p) == promises[p].state = "fulfilled"
Quiet == jobs = <<>>

\* C4: constructing or deriving a TaskEither (or the Task of match /
\* getOrElse) invokes no producer and no caller-supplied function: until
\* run() is called nothing has been invoked and no promise exists.
C4_Lazy == ~Ran => log = <<>> /\ promises = <<>> /\ jobs = <<>>

\* A full pipeline ending in ap over two tryCatch producers, not yet run.
C4_Witness ==
    /\ ~Ran
    /\ steps = MaxBuild + 1
    /\ cur.clo = "thunkAp"
    /\ cur.arg.clo = "thunkTryCatch"
    /\ SyncProducers(cur.this) # {}

\* x.ap(y) (x.zip(y) is te.map(..).ap(other)) at the top of the description.
IsApRun == cur.clo = "thunkAp" /\ Ran
ApAll == promises[RunP].deps[1]
ApP1 == promises[ApAll].deps[1]
ApP2 == promises[ApAll].deps[2]

\* C5: when x.ap(y) or x.zip(y) is run, the producers of both x and y have
\* been invoked by the time run() returns, and the combination has happened
\* only if both participants have settled.
C5_ApZipConcurrent ==
    IsApRun =>
        /\ \A n \in SyncProducers(cur.this) \cup SyncProducers(cur.arg) : Invoked(n)
        /\ (RunP # 0 /\ Fulfilled(RunP)) => Fulfilled(ApP1) /\ Fulfilled(ApP2)

\* C5 holds of every run whose receiver calls no thunk that throws
\* synchronously.
C5_UnlessSyncThrow ==
    (IsApRun /\ "X" \notin SyncProducers(cur.this)) => C5_ApZipConcurrent

IsZip ==
    /\ cur.this.clo = "thunkFlatMap"
    /\ cur.this.mapper.clo = "teMapInner"
    /\ cur.this.mapper.mapper.clo = "tupler"
ReceiverValue == promises[promises[ApP1].deps[1]].value.right

\* C6: whatever the order in which the two participants settle, the run of
\* x.ap(y) resolves to what Either's ap gives for their results: x's Left, else
\* y's Left, else Right(fn(v)); for zip that is [receiver value, argument value].
C6_ApZipResult ==
    (IsApRun /\ RunP # 0) =>
        LET r == promises[RunP]
            x == promises[ApP1]
            y == promises[ApP2]
        IN  /\ (x.state = "fulfilled" /\ y.state = "fulfilled" /\ Quiet)
                    => r.state = "fulfilled"
            /\ r.state = "fulfilled" =>
                  IF IsLeft(x.value)
                  THEN IsLeft(r.value) /\ r.value.left = x.value.left
                  ELSE IF IsLeft(y.value)
                  THEN IsLeft(r.value) /\ r.value.left = y.value.left
                  ELSE /\ ~IsLeft(r.value)
                       /\ r.value.right = Applied(x.value.right, y.value.right)
                       /\ IsZip => r.value.right = <<ReceiverValue, y.value.right>>

SettledAt(p) == CHOOSE i \in DOMAIN log : log[i].fn = "settle" /\ log[i].arg = p

\* Both producers rejected, the argument's first, and the receiver's Left won.
C6_Witness ==
    /\ IsApRun /\ RunP # 0 /\ Fulfilled(RunP)
    /\ cur.this.clo = "thunkTryCatch" /\ cur.arg.clo = "thunkTryCatch"
    /\ IsLeft(promises[ApP1].value) /\ IsLeft(promises[ApP2].value)
    /\ promises[RunP].value.left = "caughtF"
    /\ SettledAt(promises[ApP2].deps[1]) < SettledAt(promises[ApP1].deps[1])

\* all(list) at the top of the description.
IsAllRun == cur.clo = "thunkAll" /\ Ran
AllP == promises[RunP].deps[1]
ElemP(i) == promises[promises[AllP].deps[i]]
LowestOf(S) == CHOOSE i \in S : \A j \in S : i <= j

\* C7: when all(list) is run every element's producer has been invoked by
\* the time run() returns; once all have settled the result is Right(values in
\* index order), or the Left of the lowest-index Left element; all([]) is
\* Right([]).
C7_All ==
    IsAllRun =>
        /\ \A i \in DOMAIN cur.taskEithers :
              \A n \in SyncProducers(cur.taskEithers[i]) : Invoked(n)
        /\ RunP # 0 =>
              LET n == Len(cur.taskEithers)
                  lefts == {i \in 1 .. n : IsLeft(ElemP(i).value)}
                  r == promises[RunP]
              IN  /\ ((\A i \in 1 .. n : ElemP(i).state = "fulfilled") /\ Quiet)
                          => r.state = "fulfilled"
                  /\ r.state = "fulfilled" =>
                        IF lefts = {}
                        THEN /\ ~IsLeft(r.value)
                             /\ r.value.right = [i \in 1 .. n |-> ElemP(i).value.right]
                        ELSE /\ IsLeft(r.value)
                             /\ r.value.left = ElemP(LowestOf(lefts)).value.left

\* C7 holds of every list in which no element but the last calls a thunk that
\* throws synchronously.
C7_UnlessSyncThrow ==
    (IsAllRun /\ \A i \in DOMAIN cur.taskEithers :
                    i < Len(cur.taskEithers) => "X" \notin SyncProducers(cur.taskEithers[i]))
        => C7_All

\* x.flatMap(f) at the top of the description, f the caller's function, x
\* holding neither f nor a function that starts a producer.
IsFlatMapRun ==
    /\ cur.clo = "thunkFlatMap" /\ cur.mapper.clo = "user"
    /\ ~Mentions(cur.thunk, cur.mapper.name) /\ ~Mentions(cur.thunk, "toAsync")
    /\ Ran /\ RunP # 0
FlatMapX == promises[promises[RunP].deps[1]]

\* C8: when x.flatMap(f) is run, f is invoked at most once, only once x has
\* settled to Right(v) and with v, and then the TaskEither it returns is run;
\* if x settles to Left(e), f is never invoked, no producer is started after
\* x's, and the result is Left(e).
C8_FlatMapSequencing ==
    IsFlatMapRun =>
        LET x == FlatMapX
            r == promises[RunP]
            calls == CallsOf(cur.mapper.name)
        IN  /\ Cardinality(calls) <= 1
            /\ \A i \in calls :
                  /\ x.state = "fulfilled" /\ ~IsLeft(x.value)
                  /\ log[i].arg = x.value.right
            /\ (x.state = "fulfilled" /\ ~IsLeft(x.value) /\ Quiet) =>
                  /\ calls # {}
                  /\ Len(promises[RunP].deps) = 2
                  /\ r.state = promises[promises[RunP].deps[2]].state
            /\ (x.state = "fulfilled" /\ IsLeft(x.value)) =>
                  /\ calls = {}
                  /\ \A p \in DOMAIN promises : p > RunP => promises[p].src \notin Producers
                  /\ Quiet => r.state = "fulfilled"
                  /\ r.state = "fulfilled" => IsLeft(r.value) /\ r.value.left = x.value.left

\* x's producer was fulfilled, f was invoked with its value and started a
\* second producer, which has settled to the run's result.
C8_Witness ==
    /\ IsFlatMapRun /\ Fulfilled(RunP)
    /\ cur.thunk.clo = "thunkTryCatch" /\ cur.mapper.name = "toAsync"
    /\ CallsOf("toAsync") # {}
    /\ \E p \in DOMAIN promises : p > RunP /\ promises[p].src = "B"
    /\ IsLeft(promises[RunP].value) /\ promises[RunP].value.left = "caughtB"

\* tryCatch(thunk, onThrow) is the whole description.
IsTryCatch == cur.clo = "thunkTryCatch"
TryCatchP == promises[promises[RunP].deps[1]]

\* C9: the thunk of tryCatch is invoked by run() alone, once per run; when its
\* promise is fulfilled with v the run resolves to Right(v) and onThrow is not
\* invoked, when it is rejected with err the run resolves to Left(onThrow(err)),
\* and the promise run() returned is never rejected.
C9_TryCatch ==
    IsTryCatch =>
        /\ Cardinality(CallsOf(cur.thunk.name)) = (IF Ran THEN 1 ELSE 0)
        /\ (Ran /\ RunP # 0) =>
              LET t == TryCatchP
                  r == promises[RunP]
              IN  /\ r.state # "rejected"
                  /\ t.state = "pending" => r.state = "pending"
                  /\ (t.state # "pending" /\ Quiet) => r.state = "fulfilled"
                  /\ t.state = "fulfilled" => ~Invoked("onThrow")
                  /\ (t.state = "fulfilled" /\ r.state = "fulfilled") =>
                        ~IsLeft(r.value) /\ r.value.right = t.value
                  /\ (t.state = "rejected" /\ r.state = "fulfilled") =>
                        /\ IsLeft(r.value) /\ r.value.left = OnThrowOf(t.value)
                        /\ Cardinality(CallsOf("onThrow")) = 1

\* The thunk's promise was rejected and the run resolved to Left(onThrow(err)).
C9_Witness ==
    /\ IsTryCatch /\ Ran /\ RunP # 0
    /\ TryCatchP.state = "rejected"
    /\ Fulfilled(RunP)
    /\ promises[RunP].value.left = "caughtA"

\* C10: when the thunk of tryCatch throws synchronously, run() does not throw:
\* it returns a promise that resolves to Left(onThrow(err)).
C10_SyncThrowIsLeft ==
    (IsTryCatch /\ cur.thunk.name = "X" /\ Ran) =>
        /\ exc = "none"
        /\ RunP # 0
        /\ promises[RunP].state # "rejected"
        /\ Quiet => /\ Fulfilled(RunP)
                    /\ IsLeft(promises[RunP].value)
                    /\ promises[RunP].value.left = OnThrowOf("errX")

\* ------------------------------------------------------ helper claims
IsSequence == last.op = "sequence"
InvalidOf(l) == {i \in DOMAIN l : ~IsValid(l[i])}

\* The errors of the elements l[i .. Len(l)], in list order.
RECURSIVE ErrorsFrom(_, _)
ErrorsFrom(l, i) ==
    IF i > Len(l) THEN <<>> ELSE Errors(l[i]) \o ErrorsFrom(l, i + 1)

\* C11: sequence(list) is Valid(all values in list order, as many as the
\* list has elements) exactly when no element is Invalid; otherwise it is
\* Invalid with the errors of every Invalid element concatenated in list
\* order, so elements after the first failure are visited too;
\* sequence([]) is Valid([]).
C11_ValidationSequence ==
    IsSequence =>
        LET l == last.arg
            r == last.res
        IN  /\ IsValid(r) <=> InvalidOf(l) = {}
            /\ IsValid(r) =>
                  /\ Len(r.valid) = Len(l)
                  /\ \A i \in DOMAIN l : r.valid[i] = l[i].valid
            /\ ~IsValid(r) => r.invalid = ErrorsFrom(l, 1)
            /\ l = <<>> => IsValid(r) /\ r.valid = <<>>
            /\ last.calls = <<>>

\* A list with a Valid element between two Invalid ones, the first of which
\* already holds two errors: all three errors are in the result, in order.
C11_Witness ==
    /\ IsSequence /\ Len(last.arg) = 3
    /\ ~IsValid(last.arg[1]) /\ IsValid(last.arg[2]) /\ ~IsValid(last.arg[3])
    /\ Len(last.arg[1].invalid) = 2
    /\ last.arg[1].invalid[2] # last.arg[3].invalid[1]
    /\ Len(last.res.invalid) = 3

IsMapN == last.op \in {"map2", "map3"}

\* C12: map2 / map3 invoke the mapper exactly once, with the values in
\* argument order, when every argument is Valid; otherwise the mapper is not
\* invoked and the result is Invalid with the errors of the Invalid
\* arguments concatenated in argument order.
C12_ValidationMapN ==
    IsMapN =>
        LET args == <<last.recv>> \o last.arg
            r == last.res
        IN  IF InvalidOf(args) = {}
            THEN /\ IsValid(r)
                 /\ Len(last.calls) = 1
                 /\ last.calls[1].arg = [i \in DOMAIN args |-> args[i].valid]
                 /\ r.valid = Applied(User(last.calls[1].fn), last.calls[1].arg)
            ELSE /\ ~IsValid(r)
                 /\ r.invalid = ErrorsFrom(args, 1)
                 /\ last.calls = <<>>

\* map3(invalid(e1), valid(x), invalid(e2), f): errors [e1, e2], f not called.
C12_Witness ==
    /\ last.op = "map3"
    /\ ~IsValid(last.recv) /\ IsValid(last.arg[1]) /\ ~IsValid(last.arg[2])
    /\ last.recv.invalid = <<"e1">> /\ last.arg[2].invalid = <<"e2">>
    /\ last.res.invalid = <<"e1", "e2">>
    /\ last.calls = <<>>

\* C13: no Invalid reached through the constructors, methods and helpers
\* is empty, and invalid(e), fromEither(Left(e)), fromOption(None, onNone)
\* and a filterOrElse whose predicate fails each give an Invalid of exactly
\* one error.
C13_InvalidNeverEmpty ==
    /\ ~IsValid(cur) => Len(cur.invalid) >= 1
    /\ last.op = "invalid" => cur.invalid = <<last.arg>>
    /\ (last.op = "fromEither" /\ IsLeft(last.arg)) => cur.invalid = <<last.arg.left>>
    /\ (last.op = "fromOption" /\ ~IsSome(last.arg)) =>
          /\ ~IsValid(cur) /\ Len(cur.invalid) = 1
          /\ cur.invalid[1] = Applied(User("mkErr"), 0)
    /\ (last.op = "filterOrElse" /\ IsValid(last.recv)
            /\ ~Applied(last.arg, last.recv.valid)) =>
          /\ ~IsValid(last.res) /\ Len(last.res.invalid) = 1
          /\ last.res.invalid[1] = Applied(User("mkErr"), 0)

\* From fromOption(none(), onNone), a sequence over a list that holds it and
\* another Invalid gives an Invalid of two errors.
C13_Witness ==
    /\ ~IsValid(start) /\ start.invalid = <<Applied(User("mkErr"), 0)>>
    /\ steps = MaxLib
    /\ last.op = "sequence"
    /\ ~IsValid(cur) /\ Len(cur.invalid) = 2

LeftsOf(l) == {i \in DOMAIN l : IsLeft(l[i])}

\* C14: Either map2 / map3 invoke the mapper exactly once, with the values
\* in argument order, when every argument is Right; otherwise the result is
\* the Left of the first Left argument and the mapper is not invoked.
C14_EitherMapN ==
    IsMapN =>
        LET args == <<last.recv>> \o last.arg
            r == last.res
        IN  IF LeftsOf(args) = {}
            THEN /\ ~IsLeft(r)
                 /\ Len(last.calls) = 1
                 /\ last.calls[1].arg = [i \in DOMAIN args |-> args[i].right]
                 /\ r.right = Applied(User(last.calls[1].fn), last.calls[1].arg)
            ELSE /\ IsLeft(r)
                 /\ r.left = args[LowestOf(LeftsOf(args))].left
                 /\ last.calls = <<>>

\* map3(right(a), left(e1), left(e2), f) is Left(e1), f not called.
C14_Witness ==
    /\ last.op = "map3"
    /\ ~IsLeft(last.recv) /\ IsLeft(last.arg[1]) /\ IsLeft(last.arg[2])
    /\ last.arg[1].left = "e1" /\ last.arg[2].left = "e2"
    /\ last.res.left = "e1"
    /\ last.calls = <<>>

\* C15: Either sequence(list) is Right(all values in list order) exactly
\* when every element is Right (Right([]) for the empty list); otherwise it
\* is the Left of the lowest-index Left element.
C15_EitherSequence ==
    IsSequence =>
        LET l == last.arg
            r == last.res
        IN  /\ ~IsLeft(r) <=> LeftsOf(l) = {}
            /\ ~IsLeft(r) =>
                  /\ Len(r.right) = Len(l)
                  /\ \A i \in DOMAIN l : r.right[i] = l[i].right
            /\ IsLeft(r) => r.left = l[LowestOf(LeftsOf(l))].left
            /\ l = <<>> => ~IsLeft(r) /\ r.right = <<>>
            /\ last.calls = <<>>

\* A Right element followed by two Left elements with different errors.
C15_Witness ==
    /\ IsSequence /\ Len(last.arg) = 3
    /\ ~IsLeft(last.arg[1]) /\ IsLeft(last.arg[2]) /\ IsLeft(last.arg[3])
    /\ last.arg[2].left # last.arg[3].left
    /\ last.res.left = last.arg[2].left

NonesOf(l) == {i \in DOMAIN l : ~IsSome(l[i])}

\* C16: Option sequence(opts) is Some(all values in input order) when every
\* element holds a value, whatever the value, and None exactly when at least
\* one element is None.
C16_OptionSequence ==
    IsSequence =>
        LET l == last.arg
            r == last.res
        IN  /\ ~IsSome(r) <=> NonesOf(l) # {}
            /\ IsSome(r) =>
                  /\ Len(r.some) = Len(l)
                  /\ \A i \in DOMAIN l : r.some[i] = l[i].some

\* C16 holds of every list in which no Some holds the payload 0.
C16_UnlessFalsy ==
    (IsSequence /\ \A i \in DOMAIN last.arg :
                      IsSome(last.arg[i]) => last.arg[i].some # 0)
        => C16_OptionSequence

\* ----------------------------------------------------------- run() again
\* The promises the promise p was derived from, p included.
RECURSIVE Reach(_)
Reach(p) == {p} \cup UNION {Reach(promises[p].deps[i]) : i \in DOMAIN promises[p].deps}

Returned == {i \in DOMAIN runs : runs[i] # 0}
OwnProducers(i) == {p \in Reach(runs[i]) : promises[p].src \in Producers}
ProducerPromises(state) ==
    {p \in DOMAIN promises : promises[p].src \in Producers /\ promises[p].state = state}

\* C17: after n calls of run(), made at any moments, every producer of the
\* description has been invoked n times; the promises returned by two runs
\* are derived from disjoint promises, so from different producer
\* invocations; each one settles from its own producers' outcomes alone (Left
\* exactly when one of them was rejected); and the caller's functions are
\* invoked again for each run (inc once per run that came out Right, onThrow
\* once per rejected producer promise, the flatMap mapper once per fulfilled
\* first producer).
C17_RunsIndependent ==
    /\ \A n \in SyncProducers(cur) : Cardinality(CallsOf(n)) = Len(runs)
    /\ \A i, j \in Returned : i # j => Reach(runs[i]) \cap Reach(runs[j]) = {}
    /\ \A i \in Returned :
          LET own == OwnProducers(i)
              r == promises[runs[i]]
          IN  /\ r.state # "rejected"
              /\ (\E p \in own : promises[p].state = "pending") => r.state = "pending"
              /\ (Quiet /\ \A p \in own : promises[p].state # "pending") =>
                    /\ r.state = "fulfilled"
                    /\ IsLeft(r.value) <=> \E p \in own : promises[p].state = "rejected"
    /\ Quiet =>
          /\ Cardinality(CallsOf("onThrow")) = Cardinality(ProducerPromises("rejected"))
          /\ (Mentions(cur, "inc") \/ cur.clo = "thunkAp") =>
                Cardinality(CallsOf("inc")) =
                   Cardinality({i \in Returned : Fulfilled(runs[i])
                                                   /\ ~IsLeft(promises[runs[i]].value)})
          /\ Mentions(cur, "toAsync") =>
                Cardinality(CallsOf("toAsync")) =
                   Cardinality({p \in ProducerPromises("fulfilled") : promises[p].src = "A"})

\* Two overlapping runs of tryCatch(A).map(inc): the second run() was called
\* before anything settled, the first run's producer was rejected and the
\* second's fulfilled, and the results are Left and Right.
C17_Witness ==
    /\ Len(runs) = MaxRuns /\ Mentions(cur, "inc") /\ "A" \in SyncProducers(cur)
    /\ Len(log) >= 2 /\ log[2].fn = "A"
    /\ Quiet /\ \A i \in Returned : Fulfilled(runs[i])
    /\ IsLeft(promises[runs[1]].value) /\ ~IsLeft(promises[runs[2]].value)
    /\ Cardinality(CallsOf("inc")) = 1

\* ------------------------------------------------------- Option claims
\* C18: on None, map, flatMap, filter, ap, zip, flatten and tap return None
\* and invoke nothing; some(fn).ap(none()) is None and fn is not invoked; on
\* Some(v), orElse and getOrElse do not invoke the fallback (they give the
\* Option itself and v) and tapNone does not invoke its side effect.
C18_OptionAbsent ==
    /\ (last.op \in {"map", "flatMap", "filter", "ap", "zip", "flatten", "tap"}
            /\ ~IsSome(last.recv)) =>
          ~IsSome(last.res) /\ last.calls = <<>>
    /\ (last.op = "ap" /\ IsSome(last.recv) /\ ~IsSome(last.arg)) =>
          ~IsSome(last.res) /\ last.calls = <<>>
    /\ (last.op \in {"orElse", "tapNone"} /\ IsSome(last.recv)) =>
          last.res = last.recv /\ last.calls = <<>>
    /\ (last.op = "getOrElse" /\ IsSome(last.recv)) =>
          last.res = last.recv.some /\ last.calls = <<>>

\* A Some turned into None by a filter, then zipped with a Some.
C18_Witness ==
    /\ steps = MaxLib /\ IsSome(start)
    /\ last.op = "zip" /\ ~IsSome(last.recv) /\ IsSome(last.arg)
    /\ ~IsSome(last.res)
    /\ Len(log) = 1

\* ------------------------------------------------------------ law claims
MonadLawNames == {"leftIdentity", "rightIdentity", "associativity"}

\* C19: for Option, Either and TaskEither, compared by observed result:
\* of(a).flatMap(f) equals f(a), m.flatMap(of) equals m, and
\* m.flatMap(f).flatMap(g) equals m.flatMap(x => f(x).flatMap(g)), for every
\* value a, every m of either variant and every f, g that may return either
\* variant.
C19_MonadLaws ==
    last.op \in MonadLawNames => last.lhs = last.rhs

\* Associativity on a TaskEither where f succeeds and g fails, so that both
\* sides are observed as the failure g produced.
C19_Witness ==
    /\ last.op = "associativity" /\ last.fam = "TaskEither"
    /\ start.m = "success"
    /\ start.f = User("toTE") /\ start.g = User("toTL")
    /\ last.lhs = [ok |-> FALSE, error |-> "e2"]
ApplicativeLawNames == {"identity", "homomorphism", "interchange", "composition"}

\* C20: for Option, Either and Validation with of = some / right / valid:
\* of(id).ap(a) equals a, of(f).ap(of(x)) equals of(f(x)), a.ap(of(x)) equals
\* of(f => f(x)).ap(a), and of(compose).ap(u).ap(v).ap(w) equals
\* u.ap(v.ap(w)), for all operands including failure variants; for Validation
\* both sides of composition carry the same errors in the same order.
C20_ApplicativeLaws ==
    last.op \in ApplicativeLawNames => last.lhs = last.rhs

\* Composition on Validations where u, v and w are all Invalid: both sides
\* carry the three errors in the order u, v, w.
C20_Witness ==
    /\ last.op = "composition" /\ last.fam = "Validation"
    /\ start.ku = "failure" /\ start.kv = "failure" /\ start.kw = "failure"
    /\ last.lhs = [ok |-> FALSE, errors |-> <<"eu", "ev", "ew">>]
FunctorLawNames == {"functorIdentity", "functorComposition"}

\* C21: for Option, Either, Validation and TaskEither, compared by observed
\* result: m.map(x => x) equals m, and m.map(f).map(g) equals
\* m.map(x => g(f(x))), for every m of either variant and all f, g.
C21_FunctorLaws ==
    last.op \in FunctorLawNames => last.lhs = last.rhs

\* Composition on a Valid with f = zero and g = inc: both sides are Valid(1),
\* whatever the payload was.
C21_Witness ==
    /\ last.op = "functorComposition" /\ last.fam = "Validation"
    /\ start.m = "success" /\ start.a = MaxVal
    /\ start.f = User("zero") /\ start.g = User("inc")
    /\ last.lhs = [ok |-> TRUE, value |-> 1]
\* ------------------------------------------------------ exception claims
\* C22: Either tryCatch(fn, onThrow) invokes fn exactly once; if fn returns v
\* the result is Right(v) and onThrow is not invoked; if fn throws err the
\* result is Left(onThrow(err)) and the exception does not escape tryCatch.
C22_EitherTryCatch ==
    /\ exc = "none"
    /\ last.op = "tryCatch" =>
          LET fn == last.arg.fn
              onThrow == last.arg.onThrow
              r == Call(Machine0, fn, 0)
          IN  /\ Len(last.calls) >= 1
              /\ last.calls[1].fn = fn.name
              /\ Cardinality({i \in DOMAIN last.calls : last.calls[i].fn = fn.name}) = 1
              /\ IF r.ok
                 THEN /\ ~IsLeft(last.res) /\ last.res.right = r.v
                      /\ Len(last.calls) = 1
                 ELSE /\ IsLeft(last.res) /\ last.res.left = Applied(onThrow, r.v)
                      /\ onThrow.clo = "user" =>
                            /\ Len(last.calls) = 2
                            /\ last.calls[2] = [fn |-> onThrow.name, arg |-> r.v]

\* fn threw "boom" and onThrow turned it into "e9".
C22_Witness ==
    /\ last.op = "tryCatch"
    /\ last.arg.fn = User("boom") /\ last.arg.onThrow = User("relabel")
    /\ IsLeft(last.res) /\ last.res.left = "e9"
    /\ exc = "none"
\* C23: an exception thrown by a caller's function given to a combinator
\* other than tryCatch is never caught and turned into a Left, Invalid or
\* None: it leaves the synchronous combinator call, and for TaskEither it
\* makes the promise returned by run() reject.
C23_ThrowsPropagate ==
    IF ty = "TaskEither"
    THEN /\ exc = "none"
         /\ (Invoked("boom") /\ Quiet) =>
               /\ Ran
               /\ promises[RunP].state = "rejected"
               /\ promises[RunP].value = "boom"
         /\ (Ran /\ Fulfilled(RunP)) => ~Invoked("boom")
    ELSE /\ Invoked("boom") <=> exc = "boom"
         /\ exc \in {"none", "boom"}
         /\ cur = start

\* tryCatch(A).map(boom) was run, A's promise was fulfilled, the mapper was
\* invoked and the promise of run() is rejected with what it threw.
C23_Witness ==
    /\ ty = "TaskEither" /\ Ran /\ Quiet
    /\ cur.clo = "thunkFlatMap" /\ cur.mapper.clo = "teMapInner"
    /\ Invoked("A") /\ Invoked("boom")
    /\ promises[RunP].state = "rejected"
\* -------------------------------------------------- TaskEither orElse
\* x.orElse(fallback) at the top of the description, fallback the caller's
\* function, x holding neither it nor a function that starts a producer.
IsOrElseRun ==
    /\ cur.clo = "thunkOrElse" /\ cur.fallback.clo = "user"
    /\ ~Mentions(cur.thunk, cur.fallback.name) /\ ~Mentions(cur.thunk, "toAsync")
    /\ Ran /\ RunP # 0
OrElseX == promises[promises[RunP].deps[1]]

\* C24: when x.orElse(fallback) is run and x settles to Right(v), the result
\* is Right(v) and fallback is never invoked; when x settles to Left(e),
\* fallback is invoked once with e, only after x has settled, the TaskEither
\* it returns is run, and its result is the result of the whole run.
C24_OrElse ==
    IsOrElseRun =>
        LET x == OrElseX
            r == promises[RunP]
            calls == CallsOf(cur.fallback.name)
        IN  /\ Cardinality(calls) <= 1
            /\ \A i \in calls :
                  /\ x.state = "fulfilled" /\ IsLeft(x.value)
                  /\ log[i].arg = x.value.left
            /\ (x.state = "fulfilled" /\ ~IsLeft(x.value)) =>
                  /\ calls = {}
                  /\ \A p \in DOMAIN promises : p > RunP => promises[p].src \notin Producers
                  /\ Quiet => r.state = "fulfilled"
                  /\ r.state = "fulfilled" =>
                        ~IsLeft(r.value) /\ r.value.right = x.value.right
            /\ (x.state = "fulfilled" /\ IsLeft(x.value) /\ Quiet) =>
                  /\ calls # {}
                  /\ Len(r.deps) = 2
                  /\ r.state = promises[r.deps[2]].state
                  /\ r.state = "fulfilled" =>
                        EitherToResult(r.value) = EitherToResult(promises[r.deps[2]].value)

\* x's producer was rejected, so x settled to a Left; fallback was invoked
\* with its error and started a second producer, whose Right is the result.
C24_Witness ==
    /\ IsOrElseRun /\ Fulfilled(RunP) /\ Quiet
    /\ cur.thunk.clo = "thunkTryCatch" /\ cur.fallback.name = "toAsync"
    /\ IsLeft(OrElseX.value)
    /\ CallsOf("toAsync") # {}
    /\ ~IsLeft(promises[RunP].value)
\* ------------------------------------------------------- frame claims
\* C25: no combinator mutates its operands: after any sequence of combinator
\* and helper calls every previously constructed value still has the variant
\* and payload it had at construction; ap, zip, map2, map3 and sequence leave
\* the error sequences of their Invalid operands with the same elements in
\* the same order.
C25_NoMutation ==
    \A i \in DOMAIN cur.objs : RefToResult(cur, i) = cur.made[i]

\* sequence was given two Invalids and made a third one holding the errors
\* of both, after an ap had already made one that shares the first one's
\* array.
C25_Witness ==
    /\ steps = MaxCalls /\ last.op = "sequence" /\ Len(last.arg) = 2
    /\ \A k \in 1 .. 2 : ~RefIsValid(cur, last.arg[k])
    /\ Len(RefToResult(cur, last.res).errors) = 2
    /\ \E i, j \in DOMAIN cur.objs :
          /\ i < j /\ ~RefIsValid(cur, i) /\ ~RefIsValid(cur, j)
          /\ cur.objs[i].invalid = cur.objs[j].invalid

\* C26: in the synchronous families tap, tapNone and tapInvalid return the
\* receiver itself; map, flatMap and filterOrElse / filter on a failure
\* variant, filterOrElse / filter whose predicate passes, and orElse on a
\* success variant return the very same instance as the receiver.
Succeeded(x) ==
    CASE ty = "Either" -> ~IsLeft(x)
      [] ty = "Validation" -> IsValid(x)
      [] ty = "Option" -> IsSome(x)

PayloadOf(x) ==
    CASE ty = "Either" -> x.right
      [] ty = "Validation" -> x.valid
      [] ty = "Option" -> x.some

C26_SameInstance ==
    /\ last.op \in {"tap", "tapNone", "tapInvalid"} => last.res = last.recv
    /\ last.op \in {"map", "flatMap", "filterOrElse", "filter"} /\ ~Succeeded(last.recv)
          => last.res = last.recv
    /\ last.op \in {"filterOrElse", "filter"} /\ Succeeded(last.recv)
          => IF Applied(last.arg, PayloadOf(last.recv))
             THEN last.res = last.recv
             ELSE last.res.id # last.recv.id /\ ~Succeeded(last.res)
    /\ last.op = "orElse" /\ Succeeded(last.recv) => last.res = last.recv

\* orElse answered its Right receiver with that receiver, which an earlier
\* call had made: it is not the value the program started from.
C26_Witness ==
    /\ ty = "Either" /\ last.op = "orElse" /\ ~IsLeft(last.recv)
    /\ cur = last.recv /\ cur.id # start.id /\ cur.right = start.right

\* ------------------------------------------------- refinement claims
\* C27: for every list of TaskEithers and every order in which they settle,
\* all(list).run() resolves to an Either equal to Either's sequence applied
\* to the elements' settled Eithers in input order.
C27_AllIsSequence ==
    (IsAllRun /\ RunP # 0) =>
        LET n == Len(cur.taskEithers)
            r == promises[RunP]
            settled == \A i \in 1 .. n : ElemP(i).state = "fulfilled"
        IN  /\ (settled /\ Quiet) => r.state = "fulfilled"
            /\ r.state # "rejected"
            /\ r.state = "fulfilled" =>
                  /\ settled
                  /\ EitherToResult(r.value) =
                        EitherToResult(
                            EitherSequence(Machine0,
                                           [i \in 1 .. n |-> ElemP(i).value]).v)

\* Three elements; the last two are producers that were rejected, the third
\* before the second, and the result is the second's Left.
C27_Witness ==
    /\ IsAllRun /\ RunP # 0 /\ Fulfilled(RunP)
    /\ Len(cur.taskEithers) = 3
    /\ cur.taskEithers[2].clo = "thunkTryCatch" /\ cur.taskEithers[3].clo = "thunkTryCatch"
    /\ ~IsLeft(ElemP(1).value) /\ IsLeft(ElemP(2).value) /\ IsLeft(ElemP(3).value)
    /\ ElemP(2).value.left # ElemP(3).value.left
    /\ SettledAt(ElemP(3).deps[1]) < SettledAt(ElemP(2).deps[1])
    /\ promises[RunP].value.left = ElemP(2).value.left

\* C28: for every list of Validations, sequence(list) has the same toResult
\* as folding the list left to right from valid([]) with
\* map2(acc, v, (xs, x) => xs ++ [x]): the same variant, the same values and
\* the same errors in the same order.
C28_SequenceIsFold ==
    last.op = "sequence" =>
        ValidationToResult(last.res) =
            ValidationToResult(ValidationFold(Machine0, last.arg).v)

\* A list of three: a Valid between an Invalid of two errors and an Invalid
\* of one.
C28_Witness ==
    /\ last.op = "sequence" /\ Len(last.arg) = 3
    /\ ~IsValid(last.arg[1]) /\ Len(last.arg[1].invalid) = 2
    /\ IsValid(last.arg[2])
    /\ ~IsValid(last.arg[3])
    /\ last.arg[3].invalid[1] \notin {last.arg[1].invalid[1], last.arg[1].invalid[2]}
    /\ Len(last.res.invalid) = 3

\* ------------------------------------------------- exactly once per run
\* How many times a description holds the caller's function named n.
RECURSIVE Holds(_, _)
RECURSIVE HoldsFrom(_, _, _)
HoldsFrom(taskEithers, i, n) ==
    IF i > Len(taskEithers) THEN 0
    ELSE Holds(taskEithers[i], n) + HoldsFrom(taskEithers, i + 1, n)

Holds(te, n) ==
    CASE te.clo = "user" -> IF te.name = n THEN 1 ELSE 0
      [] te.clo = "teMapInner" -> Holds(te.mapper, n)
      [] te.clo = "thunkTryCatch" -> Holds(te.thunk, n) + Holds(te.onThrow, n)
      [] te.clo = "thunkFromTask" -> IF te.t.name = n THEN 1 ELSE 0
      [] te.clo \in {"thunkFlatMap", "thunkMapLeft"} ->
            Holds(te.thunk, n) + Holds(te.mapper, n)
      [] te.clo \in {"thunkTap", "thunkTapLeft"} ->
            Holds(te.thunk, n) + Holds(te.sideEffect, n)
      [] te.clo \in {"thunkOrElse", "thunkGetOrElse"} ->
            Holds(te.thunk, n) + Holds(te.fallback, n)
      [] te.clo = "thunkMatch" ->
            Holds(te.thunk, n) + Holds(te.onLeft, n) + Holds(te.onRight, n)
      [] te.clo = "thunkAp" -> Holds(te.this, n) + Holds(te.arg, n)
      [] te.clo = "thunkAll" -> HoldsFrom(te.taskEithers, 1, n)
      [] OTHER -> 0

Times(n) == Cardinality(CallsOf(n))
\* The functions the caller gives to map, flatMap, orElse, mapLeft and tap
\* (inc and zero are also payloads that ap applies).
Callbacks == {"adder", "toTE", "toTL", "toAsync", "recover", "relabel", "effect"}

\* C29: a single run() invokes the producer of the receiver and of every
\* ap / zip / all participant exactly once (zip does not run its receiver
\* twice), a flatMap mapper at most once and only on Right, an orElse
\* fallback at most once and only on Left. The producer B is also the one
\* started by the TaskEither that the caller's function toAsync returns.
C29_ExactlyOnce ==
    Ran =>
        /\ \A n \in (Producers \cup {"X"}) \ {"B"} : Times(n) = Holds(cur, n)
        /\ Times("B") = Holds(cur, "B") + Times("toAsync")
        /\ \A f \in Callbacks : Times(f) <= Holds(cur, f)
        /\ IsFlatMapRun =>
              \A i \in CallsOf(cur.mapper.name) :
                 FlatMapX.state = "fulfilled" /\ ~IsLeft(FlatMapX.value)
        /\ IsOrElseRun =>
              \A i \in CallsOf(cur.fallback.name) :
                 OrElseX.state = "fulfilled" /\ IsLeft(OrElseX.value)

\* C29 holds of every description that holds no thunk throwing synchronously.
C29_UnlessSyncThrow == Holds(cur, "X") = 0 => C29_ExactlyOnce

\* A zip of two producers over a flatMap has run to the end: every producer
\* was invoked once, the one the mapper started included.
C29_Witness ==
    /\ Ran /\ RunP # 0 /\ Fulfilled(RunP) /\ Quiet
    /\ cur.clo = "thunkAp" /\ Holds(cur, "toAsync") = 1
    /\ Times("A") = 1 /\ Times("toAsync") = 1 /\ Times("B") = 2

\* ------------------------------------------------------- run() settles
\* The TaskEither program whose producers' promises are all fulfilled in
\* the end and whose functions do not throw. It starts with a description
\* already constructed: a constructor call (the throwing thunk X left out)
\* and at most MaxBuild derivations. Then run() is called, the event loop
\* runs every queued microtask, the outside world fulfils every pending
\* producer at some time and rejects none.
OfType(r, t) == [m |-> r.m, ok |-> r.ok, v |-> r.v, t |-> t]

LCtors ==
    {[k |-> "taskEither", n |-> v] : v \in Vals}
        \cup {[k |-> k, n |-> 0] :
                 k \in {"taskEither.inc", "taskLeft", "fromEither.right", "fromEither.left",
                        "fromTask", "tryCatch.A", "tryCatch.F"}}

LNew(c) ==
    CASE c.k = "taskEither" -> OfType(TEtaskEither(Machine0, c.n), "num")
      [] c.k = "taskEither.inc" -> OfType(TEtaskEither(Machine0, User("inc")), "fn")
      [] c.k = "taskLeft" -> OfType(TEtaskLeft(Machine0, "e1"), "num")
      [] c.k = "fromEither.right" ->
            LET e == MkRight(Machine0, 1) IN OfType(TEfromEither(e.m, e.v), "num")
      [] c.k = "fromEither.left" ->
            LET e == MkLeft(Machine0, "e1") IN OfType(TEfromEither(e.m, e.v), "num")
      [] c.k = "fromTask" ->
            LET t == CreateTask(Machine0, User("T")) IN OfType(TEfromTask(t.m, t.v), "num")
      [] c.k = "tryCatch.A" -> OfType(TEtryCatch(Machine0, User("A"), OnThrow), "num")
      [] c.k = "tryCatch.F" -> OfType(TEtryCatch(Machine0, User("F"), OnThrow), "fn")

LOps ==
    {"map.inc", "map.adder", "map.toTE", "mapLeft", "ap.B", "ap.left", "zip.B", "flatten",
     "flatMap.toTL", "flatMap.toAsync", "tap", "tapLeft", "orElse.recover",
     "orElse.toAsync", "match", "getOrElse"}

\* One derivation; d.ok is FALSE when the method does not exist on d's type.
LStep(d, op) ==
    CASE ~d.ok -> d
      [] d.ok /\ op = "map.inc" /\ d.t = "num" -> OfType(TEMap(d.m, d.v, User("inc")), "num")
      [] d.ok /\ op = "map.adder" /\ d.t = "num" ->
            OfType(TEMap(d.m, d.v, User("adder")), "fn")
      [] d.ok /\ op = "map.toTE" /\ d.t = "num" ->
            OfType(TEMap(d.m, d.v, User("toTE")), "nested")
      [] d.ok /\ op = "mapLeft" /\ d.t # "task" ->
            OfType(TEMapLeft(d.m, d.v, User("relabel")), d.t)
      [] d.ok /\ op = "ap.B" /\ d.t = "fn" ->
            OfType(TEAp(d.m, d.v, TEtryCatch(d.m, User("B"), OnThrow).v), "num")
      [] d.ok /\ op = "ap.left" /\ d.t = "fn" ->
            OfType(TEAp(d.m, d.v, TEtaskLeft(d.m, "e2").v), "num")
      [] d.ok /\ op = "zip.B" /\ d.t = "num" ->
            OfType(TEZip(d.m, d.v, TEtryCatch(d.m, User("B"), OnThrow).v), "pair")
      [] d.ok /\ op = "flatten" /\ d.t = "nested" -> OfType(TEFlatten(d.m, d.v), "num")
      [] d.ok /\ op = "flatMap.toTL" /\ d.t = "num" ->
            OfType(TEFlatMap(d.m, d.v, User("toTL")), "num")
      [] d.ok /\ op = "flatMap.toAsync" /\ d.t = "num" ->
            OfType(TEFlatMap(d.m, d.v, User("toAsync")), "num")
      [] d.ok /\ op = "tap" /\ d.t # "task" -> OfType(TETap(d.m, d.v, User("effect")), d.t)
      [] d.ok /\ op = "tapLeft" /\ d.t # "task" ->
            OfType(TETapLeft(d.m, d.v, User("effect")), d.t)
      [] d.ok /\ op = "orElse.recover" /\ d.t = "num" ->
            OfType(TEOrElse(d.m, d.v, User("recover")), "num")
      [] d.ok /\ op = "orElse.toAsync" /\ d.t = "num" ->
            OfType(TEOrElse(d.m, d.v, User("toAsync")), "num")
      [] d.ok /\ op = "match" /\ d.t = "num" ->
            OfType(TEMatch(d.m, d.v, User("zero"), User("inc")), "task")
      [] d.ok /\ op = "getOrElse" /\ d.t = "num" ->
            OfType(TEGetOrElse(d.m, d.v, User("zero")), "task")
      [] OTHER -> [d EXCEPT !.ok = FALSE]

RECURSIVE LBuild(_, _, _)
LBuild(d, ops, i) == IF i > Len(ops) THEN d ELSE LBuild(LStep(d, ops[i]), ops, i + 1)

LOpSeqs == UNION {[1 .. n -> LOps] : n \in 0 .. MaxBuild}
\* The lists all is given here: selections from five elements, in their order.
LElems ==
    <<TEtryCatch(Machine0, User("A"), OnThrow).v, TEtaskLeft(Machine0, "e1").v,
      TEtryCatch(Machine0, User("B"), OnThrow).v, TEtaskEither(Machine0, 0).v,
      TEtryCatch(Machine0, User("C"), OnThrow).v>>
LPicks ==
    {s \in UNION {[1 .. n -> DOMAIN LElems] : n \in 0 .. MaxAll} :
        \A i, j \in DOMAIN s : i < j => s[i] < s[j]}
LLists == {[i \in DOMAIN s |-> LElems[s[i]]] : s \in LPicks}

LStart(d, first, n) ==
    /\ d.ok
    /\ cur = d.v /\ start = first.v /\ ty = d.t /\ steps = n
    /\ nid = d.m.nid /\ log = d.m.log
    /\ promises = d.m.promises /\ jobs = d.m.jobs
    /\ last = NoLast /\ exc = "none" /\ runs = <<>> /\ insync = FALSE

LInit ==
    \E ops \in LOpSeqs :
       \/ \E c \in LCtors : LStart(LBuild(LNew(c), ops, 1), LNew(c), Len(ops) + 1)
       \/ \E l \in LLists :
             LStart(LBuild(OfType(TEall(Machine0, l), "list"), ops, 1),
                    TEall(Machine0, l), Len(ops) + 1)

\* Each step of the event loop is counted in last: the n-th step, a job
\* that reacts to promise p or the settlement of p.
Beat(op, p) == [op |-> op, n |-> IF last.op = "none" THEN 1 ELSE last.n + 1, p |-> p]

LInstall(m, op, p) ==
    /\ last' = Beat(op, p)
    /\ log' = m.log
    /\ nid' = m.nid
    /\ promises' = m.promises
    /\ jobs' = m.jobs
    /\ insync' = FALSE
    /\ UNCHANGED <<start, cur, ty, steps, exc, runs>>

LMicrotask ==
    /\ jobs # <<>>
    /\ LInstall(RunJob([Machine EXCEPT !.jobs = Tail(jobs)], Head(jobs)), "job", Head(jobs).p)

LFulfil ==
    /\ jobs = <<>>
    /\ \E p \in DOMAIN promises :
          /\ Awaited(p)
          /\ LInstall(SettlePromise(Settled(Machine, p), p, "fulfilled",
                                     ResolveValue(promises[p].src)), "settle", p)

LNext == TRun \/ LMicrotask \/ LFulfil

\* The steps fairness is about, named by what LNext leaves in last: the
\* step that runs the head of the queue is LMicrotask, the step that
\* settles an awaited producer is LFulfil.
JobRuns == jobs # <<>> /\ last' = Beat("job", Head(jobs).p)
ProducerSettles ==
    /\ jobs = <<>>
    /\ \E p \in DOMAIN promises : Awaited(p) /\ last' = Beat("settle", p)

JobRunsIsMicrotask == [][(JobRuns <=> LMicrotask) /\ (ProducerSettles <=> LFulfil)]_vars

\* The event loop runs every queued job; while a producer's promise is
\* pending, one of them settles.
SpecTELive ==
    /\ LInit /\ [][LNext]_vars
    /\ WF_last(JobRuns) /\ WF_last(ProducerSettles)

IsEither(v) == DOMAIN v \in {{"left", "id"}, {"right", "id"}}
RunSettled ==
    /\ Ran /\ RunP # 0 /\ Fulfilled(RunP)
    /\ ty # "task" => IsEither(promises[RunP].value)

\* C30: if every producer's promise eventually settles without rejecting and
\* no function of the caller throws, the promise run() returned eventually
\* resolves to a Right or a Left, under every fair interleaving of the
\* completions; it never rejects and never stays pending.
C30_RunSettles ==
    /\ [](Ran => exc = "none" /\ RunP # 0 /\ promises[RunP].state # "rejected")
    /\ Ran ~> RunSettled

\* all of three producers has resolved after they were fulfilled in another
\* order than the list's.
C30_Witness ==
    /\ RunSettled /\ Quiet
    /\ cur.clo = "thunkAll" /\ Len(cur.taskEithers) = 3
    /\ \A i \in 1 .. 3 : cur.taskEithers[i].clo = "thunkTryCatch"
    /\ SettledAt(ElemP(3).deps[1]) < SettledAt(ElemP(1).deps[1])
====
